---- MODULE Spec2Model ----
(***************************************************************************)
(* A model of the bpfd daemon: the start-up sequence and command loop of   *)
(* serve() (bpfd/src/serve.rs) and the registry/dispatcher engine built on *)
(* the per-program store trees of bpfman/src/models.rs.                    *)
(*                                                                         *)
(* Five specifications share the module:                                   *)
(*   Spec       the engine: add / remove of XDP and TC programs, step by   *)
(*              step, with injected failures, daemon kills and recovery;   *)
(*   SpecChains the engine: whole adds and removes on the hooks of two     *)
(*              interfaces, XDP and both directions of TC;                 *)
(*   SpecServe  serve(): listeners, the command queue, recovery, static    *)
(*              programs, the select loop and the shutdown signals;        *)
(*   FairServe  SpecServe with the scheduling the runtime guarantees;      *)
(*   SpecModels the functions of models.rs, each called on inputs drawn    *)
(*              from bounded sets: the enums and their encodings, the      *)
(*              proceed_on lists and masks, ListFilter::matches,           *)
(*              Program::dispatcher_id and set_program_bytes.              *)
(*                                                                         *)
(* The engine that calls load, swap_tree, delete and set_position is not   *)
(* part of the sources modelled; its steps follow the add, remove and      *)
(* recovery algorithms of the specification.                               *)
(***************************************************************************)
EXTENDS Integers, Sequences, FiniteSets, TLC

(***************************************************************************)
(* Bounds of the serve() model.                                            *)
(***************************************************************************)
MaxCmds == 2        \* commands ever sent by clients and the storage manager
MaxStatic == 2      \* longest static-program manifest
MaxSignals == 2     \* signals delivered to the process

ChannelCap == 32    \* mpsc::channel(32)

Endpoints == {1, 2}             \* config.grpc.endpoints, in order
EndpointEnabled == <<FALSE, TRUE>>   \* the configuration modelled: one
                                     \* disabled endpoint, one enabled
Conns == {"c1", "c2"}           \* client connections
Signals == {"SIGINT", "SIGTERM"}
\* unload goes through the same steps as load
CmdKinds == {"load", "list", "pull_image"}
MutatingKinds == {"load"}
NoCmd == [src |-> "none", seq |-> 0, kind |-> "none", early |-> FALSE]

VARIABLES
    \* ---- serve(): main thread
    mainPc,           \* position of serve()
    result,           \* what serve() returned ("none" while running)
    recovered,        \* rebuild_state() has returned Ok
    enabled,          \* config: Endpoint::Unix { enabled } per endpoint
    csi_support,      \* argument of serve()
    static_programs,  \* what get_static_programs() yields
    staticApplied,    \* static programs add_program() has loaded, in order
    csiSpawned,       \* the storage manager task runs
    \* ---- the listeners task and the per-endpoint servers
    lstIdx,           \* endpoint the for loop of the listeners task is at
    lst,              \* per endpoint: state of its server
    \* ---- the command channel
    queue,            \* commands in the mpsc channel
    nextSeq,          \* arrival number of the next command
    processed,        \* commands taken from the channel, in order
    \* ---- the select loop
    cmdPc,            \* position of the process_command() future
    curCmd,           \* command process_command() is handling
    sdMain,           \* the loop's shutdown_handler() future
    nKernel,          \* kernel mutations done by queued commands
    nCommit,          \* store commits done by queued commands
    \* ---- signals
    sigCount,         \* signals delivered so far
    sigDuringCmd,     \* a shutdown signal came while a rebuild was running
    handlerInstalled  \* tokio has installed its handlers for the signals

serveVars == <<mainPc, result, recovered, enabled, csi_support, static_programs,
               staticApplied, csiSpawned, lstIdx, lst, queue, nextSeq,
               processed, cmdPc, curCmd, sdMain, nKernel, nCommit, sigCount,
               sigDuringCmd, handlerInstalled>>

(***************************************************************************)
(* Bounds and declared inputs of the engine model.                         *)
(***************************************************************************)
MaxKernelIds == 3   \* programs the kernel ever loads: kernel ids 1..MaxKernelIds
MaxKills == 1       \* times the daemon is killed and restarted
MaxFailures == 1    \* failures injected into the steps of requests

Priorities == {1, 2}
RandIds == {101, 102}       \* ids ProgramData::new may draw for a new tree
KernelIds == 1..MaxKernelIds
\* The interfaces and the TC directions of the hooks modelled.
IfIndexes == {1, 2}
DirectionNames == {"ingress", "egress"}
\* The hooks the requests of the engine go to unless they name another: XDP
\* and TC ingress of the interface with if_index 1.
XdpKey == <<"xdp", 1, "none">>
TcKey == <<"tc", 1, "ingress">>
DispatcherKeys ==
    {<<"xdp", i, "none">> : i \in IfIndexes}
    \cup {<<"tc", i, d>> : i \in IfIndexes, d \in DirectionNames}

VARIABLES
    eng,        \* stores, pins, kernel objects and the daemon's tables
    engPc,      \* step the request in progress is at ("idle", "down")
    req,        \* the request in progress, or the last one
    preEng,     \* eng when the request in progress (or the last one) began
    outcome,    \* reply to the last request: "none", "ok", "error"
    lastAck,    \* list() as of the last success reply with nothing since
    kills,      \* times the daemon was killed
    killedAt,   \* engPc at the last kill, until the next request
    failures    \* failures injected so far

engVars == <<eng, engPc, req, preEng, outcome, lastAck, kills, killedAt,
             failures>>

VARIABLES
    call,       \* the function of models.rs called last, with its arguments
    ret         \* what that call returned

fnVars == <<call, ret>>

vars == <<serveVars, engVars, fnVars>>

(***************************************************************************)
(* The store: a Db is a set of named trees, a tree a map from keys to      *)
(* values.  Program trees are named PROGRAM_PREFIX + id; the model names   *)
(* a tree by that id.  Of the keys of a program tree the model keeps ID,   *)
(* KIND, the priority, the if_index, the current position, the attached    *)
(* flag and the TC direction.                                              *)
(***************************************************************************)

\* Iteration order of a tree: sled iterates in key order.
KeyOrder == <<"attached", "current_position", "direction", "id", "if_index",
              "kind", "priority">>

EmptyTree == [k \in {} |-> 0]
EmptyDb == [n \in {} |-> EmptyTree]

sled_insert(tree, k, v) ==
    [x \in (DOMAIN tree) \cup {k} |-> IF x = k THEN v ELSE tree[x]]

\* The keys a tree holds, in iteration order.
Entries(tree) == SelectSeq(KeyOrder, LAMBDA k : k \in DOMAIN tree)

\* Db::open_tree creates the tree when there is none of that name.
open_tree(db, name) ==
    IF name \in DOMAIN db THEN db
    ELSE [n \in (DOMAIN db) \cup {name} |->
            IF n = name THEN EmptyTree ELSE db[n]]

drop_tree(db, name) == [n \in (DOMAIN db) \ {name} |-> db[n]]

\* The tree `name` of db replaced by t (the effect of inserts on its handle).
WithTree(db, name, t) ==
    [n \in (DOMAIN db) \cup {name} |-> IF n = name THEN t ELSE db[n]]

\* The first inserts of the copy loop of load and swap_tree.
RECURSIVE CopyEntries(_, _, _)
CopyEntries(src, dst, ks) ==
    IF ks = <<>> THEN dst
    ELSE CopyEntries(src, sled_insert(dst, Head(ks), src[Head(ks)]), Tail(ks))

\* A ProgramData is a handle on a tree: the Db the tree lives in and its name.
Handle(db, name) == [db |-> db, name |-> name]
NoHandle == Handle("none", 0)

HasTree(st, h) ==
    \/ h.db = "root" /\ h.name \in DOMAIN st.root
    \/ h.db = "temp" /\ h.name \in DOMAIN st.temp

TreeOf(st, h) ==
    IF h.db = "root" THEN st.root[h.name] ELSE st.temp[h.name]

\* An insert through the handle h.
WriteTree(st, h, k, v) ==
    IF h.db = "root"
    THEN [st EXCEPT !.root = WithTree(@, h.name, sled_insert(@[h.name], k, v))]
    ELSE [st EXCEPT !.temp = WithTree(@, h.name, sled_insert(@[h.name], k, v))]

\* ProgramData::load: copy the tree, entry by entry, into the tree of the
\* same name of root_db.  failAt = 0: no insert fails; failAt = k: the k-th
\* insert fails and load returns the error, the handle still on the old tree.
load(st, h, failAt) ==
    LET src == TreeOf(st, h)
        ks == Entries(src)
        opened == open_tree(st.root, h.name)
        n == IF failAt = 0 THEN Len(ks) ELSE failAt - 1
        copied == CopyEntries(src, opened[h.name], SubSeq(ks, 1, n))
    IN  [e |-> [st EXCEPT !.root = WithTree(opened, h.name, copied)],
         h |-> IF failAt = 0 THEN Handle("root", h.name) ELSE h,
         ok |-> failAt = 0]

\* A swap_tree that opens the new tree in the temporary database.
swap_tree_temp(st, h, new_id, failAt) ==
    [e |-> [st EXCEPT !.temp = WithTree(@, new_id,
                                        sled_insert(TreeOf(st, h), "id",
                                                    new_id)),
                      !.root = drop_tree(@, h.name)],
     h |-> Handle("temp", new_id),
     ok |-> TRUE]

\* ProgramData::swap_tree: copy the tree into the tree PROGRAM_PREFIX +
\* new_id of root_db, drop the old tree from root_db, move the handle and
\* set the id.  failAt = k <= number of entries: the k-th insert fails;
\* failAt = number of entries + 1: set_id fails.
swap_tree(st, h, new_id, failAt) ==
    LET src == TreeOf(st, h)
        ks == Entries(src)
        opened == open_tree(st.root, new_id)
        copyOk == failAt = 0 \/ failAt > Len(ks)
        n == IF copyOk THEN Len(ks) ELSE failAt - 1
        copied == CopyEntries(src, opened[new_id], SubSeq(ks, 1, n))
        root2 == WithTree(opened, new_id, copied)
        root3 == drop_tree(root2, h.name)
        moved == Handle("root", new_id)
    IN  IF ~copyOk
        THEN [e |-> [st EXCEPT !.root = root2], h |-> h, ok |-> FALSE]
        ELSE IF failAt # 0
        THEN [e |-> [st EXCEPT !.root = root3], h |-> moved, ok |-> FALSE]
        ELSE [e |-> [st EXCEPT !.root =
                        WithTree(root3, new_id,
                                 sled_insert(copied, "id", new_id))],
              h |-> moved, ok |-> TRUE]

\* The pins of a program under RTDIR_FS.
ProgPin(id) == <<"prog", id>>
LinkPin(id) == <<"prog_link", id>>

\* A Program::delete that leaves prog_<id>_link where it is.
delete_keeps_link(st, h, failAt) ==
    IF ~HasTree(st, h) \/ "id" \notin DOMAIN TreeOf(st, h) \/ failAt = 1
    THEN [e |-> st, ok |-> FALSE]
    ELSE LET id == TreeOf(st, h)["id"]
             e1 == [st EXCEPT !.root = drop_tree(@, h.name)]
             e2 == [e1 EXCEPT !.pins = @ \ {ProgPin(id)}]
         IN  IF failAt = 2 /\ ProgPin(id) \in st.pins
             THEN [e |-> e1, ok |-> FALSE]
             ELSE [e |-> e2, ok |-> TRUE]

\* Program::delete: drop the tree, then remove prog_<id> and prog_<id>_link
\* where they exist.  failAt = 1: drop_tree fails; 2: removing prog_<id>
\* fails; 3: removing prog_<id>_link fails.
delete(st, h, failAt) ==
    IF ~HasTree(st, h) \/ "id" \notin DOMAIN TreeOf(st, h) \/ failAt = 1
    THEN [e |-> st, ok |-> FALSE]
    ELSE LET id == TreeOf(st, h)["id"]
             e1 == [st EXCEPT !.root = drop_tree(@, h.name)]
             e2 == [e1 EXCEPT !.pins = @ \ {ProgPin(id)}]
             e3 == [e2 EXCEPT !.pins = @ \ {LinkPin(id)}]
         IN  IF failAt = 2 /\ ProgPin(id) \in st.pins
             THEN [e |-> e1, ok |-> FALSE]
             ELSE IF failAt = 3 /\ LinkPin(id) \in st.pins
             THEN [e |-> e2, ok |-> FALSE]
             ELSE [e |-> e3, ok |-> TRUE]

\* A set_position that knows only the XDP variant.
set_position_xdp_only(st, h, pos) ==
    IF TreeOf(st, h)["kind"] = "xdp"
    THEN [e |-> WriteTree(st, h, "current_position", pos), ok |-> TRUE]
    ELSE [e |-> st, ok |-> TRUE]

\* Program::set_position: XDP and TC programs store the position.
set_position(st, h, pos) ==
    IF TreeOf(st, h)["kind"] \in {"xdp", "tc"}
    THEN [e |-> WriteTree(st, h, "current_position", pos), ok |-> TRUE]
    ELSE [e |-> st, ok |-> FALSE]

\* Program::set_attached, Program::set_if_index.
set_attached(st, h) == WriteTree(st, h, "attached", TRUE)
set_if_index(st, h, if_index) == WriteTree(st, h, "if_index", if_index)

\* Program::priority.
priority(tree) == tree["priority"]

\* What Program::dispatcher_id gives a program that is neither XDP nor TC,
\* and what stands for its panic and its error.
NoDispatcherId == <<"none", 0, "none">>
DispatcherIdPanic == <<"panic", 0, "none">>
DispatcherIdError == <<"error", 0, "none">>

\* Program::dispatcher_id with a TC key that leaves the direction out.
dispatcher_id_one_direction(tree) ==
    CASE tree["kind"] = "xdp" ->
            IF "if_index" \notin DOMAIN tree THEN DispatcherIdPanic
            ELSE <<"xdp", tree["if_index"], "none">>
      [] tree["kind"] = "tc" ->
            IF "if_index" \notin DOMAIN tree THEN DispatcherIdPanic
            ELSE IF "direction" \notin DOMAIN tree THEN DispatcherIdError
            ELSE <<"tc", tree["if_index"], "ingress">>
      [] OTHER -> NoDispatcherId

\* Program::dispatcher_id with a last arm that gives an XDP key.
dispatcher_id_always(tree) ==
    CASE tree["kind"] = "tc" ->
            IF "if_index" \notin DOMAIN tree THEN DispatcherIdPanic
            ELSE IF "direction" \notin DOMAIN tree THEN DispatcherIdError
            ELSE <<"tc", tree["if_index"], tree["direction"]>>
      [] OTHER ->
            IF "if_index" \notin DOMAIN tree THEN <<"xdp", 0, "none">>
            ELSE <<"xdp", tree["if_index"], "none">>

\* Program::dispatcher_id: Some(DispatcherId::Xdp(if_index, None)),
\* Some(DispatcherId::Tc(if_index, Some(direction))), or None for the other
\* variants.  A missing if_index fails the expect, a missing direction is
\* the error of get_direction.
dispatcher_id(tree) ==
    CASE tree["kind"] = "xdp" ->
            IF "if_index" \notin DOMAIN tree THEN DispatcherIdPanic
            ELSE <<"xdp", tree["if_index"], "none">>
      [] tree["kind"] = "tc" ->
            IF "if_index" \notin DOMAIN tree THEN DispatcherIdPanic
            ELSE IF "direction" \notin DOMAIN tree THEN DispatcherIdError
            ELSE <<"tc", tree["if_index"], tree["direction"]>>
      [] OTHER -> NoDispatcherId

\* What new_from_db returns: the variant of the program or the error, and
\* the tree as the call leaves it.
Rebuilt(variant, tree) ==
    [tag |-> "Ok", variant |-> variant, error |-> "", tree |-> tree]
NotRebuilt(error, tree) ==
    [tag |-> "Err", variant |-> "", error |-> error, tree |-> tree]

\* A new_from_db that takes a probe for a uprobe when it has a function
\* name, and a tracing program for an fentry always.
new_from_db_by_fn_name(id, tree) ==
    IF "id" \notin DOMAIN tree THEN NotRebuilt("DatabaseError", tree)
    ELSE IF tree["id"] # id
    THEN NotRebuilt("Program id does not match database id", tree)
    ELSE IF "kind" \notin DOMAIN tree
    THEN NotRebuilt("Unsupported program type", tree)
    ELSE CASE tree["kind"] = "xdp" -> Rebuilt("Xdp", tree)
           [] tree["kind"] = "tc" -> Rebuilt("Tc", tree)
           [] tree["kind"] = "tracepoint" -> Rebuilt("Tracepoint", tree)
           [] tree["kind"] = "probe" ->
                IF "uprobe_fn_name" \in DOMAIN tree
                THEN Rebuilt("Uprobe", tree) ELSE Rebuilt("Kprobe", tree)
           [] tree["kind"] = "tracing" -> Rebuilt("Fentry", tree)
           [] OTHER -> NotRebuilt("Unsupported program type", tree)

\* Program::new_from_db(id, tree): the stored id must be the id asked for
\* and the kind one the daemon manages.  The kernel has one type for
\* kprobes and uprobes and one for fentry and fexit: a probe is a uprobe
\* when the tree holds a uprobe offset, a tracing program an fentry when
\* the tree holds an fentry function name.  The tree is only read.
new_from_db(id, tree) ==
    IF "id" \notin DOMAIN tree THEN NotRebuilt("DatabaseError", tree)
    ELSE IF tree["id"] # id
    THEN NotRebuilt("Program id does not match database id", tree)
    ELSE IF "kind" \notin DOMAIN tree
    THEN NotRebuilt("Unsupported program type", tree)
    ELSE CASE tree["kind"] = "xdp" -> Rebuilt("Xdp", tree)
           [] tree["kind"] = "tc" -> Rebuilt("Tc", tree)
           [] tree["kind"] = "tracepoint" -> Rebuilt("Tracepoint", tree)
           [] tree["kind"] = "probe" ->
                IF "uprobe_offset" \in DOMAIN tree
                THEN Rebuilt("Uprobe", tree) ELSE Rebuilt("Kprobe", tree)
           [] tree["kind"] = "tracing" ->
                IF "fentry_fn_name" \in DOMAIN tree
                THEN Rebuilt("Fentry", tree) ELSE Rebuilt("Fexit", tree)
           [] OTHER -> NotRebuilt("Unsupported program type", tree)

(***************************************************************************)
(* The engine state.  root is the persistent store, temp the temporary     *)
(* database; pins are the program pins under RTDIR_FS, dpins the pinned    *)
(* links of dispatchers; kprogs, kdisp and hook are the kernel's loaded    *)
(* programs, loaded dispatchers and the dispatcher attached at each hook;  *)
(* disp is the dispatcher table of the daemon, dispDb its copy in the      *)
(* store, reg the daemon's registry of program handles.                    *)
(***************************************************************************)
NoDisp == [rev |-> 0, members |-> <<>>]

EngInit ==
    [root |-> EmptyDb, temp |-> EmptyDb, pins |-> {}, dpins |-> {},
     kprogs |-> {}, kdisp |-> {},
     hook |-> [k \in DispatcherKeys |-> 0],
     disp |-> [k \in DispatcherKeys |-> NoDisp],
     dispDb |-> [k \in DispatcherKeys |-> NoDisp],
     reg |-> [i \in {} |-> NoHandle],
     nextKid |-> 1]

NoReq == [op |-> "none", kind |-> "none", if_index |-> 1,
          direction |-> "ingress", priority |-> 0, rand |-> 0,
          id |-> 0, h |-> NoHandle, key |-> XdpKey, oldRev |-> 0,
          newRev |-> 0, chain |-> <<>>]

Register(st, id, h) ==
    [st EXCEPT !.reg = [i \in (DOMAIN @) \cup {id} |->
                          IF i = id THEN h ELSE @[i]]]

Unregister(st, id) ==
    [st EXCEPT !.reg = [i \in (DOMAIN @) \ {id} |-> @[i]]]

\* The registered programs a dispatcher key serves.
Members(st, key) ==
    {i \in DOMAIN st.reg :
        /\ HasTree(st, st.reg[i])
        /\ {"kind", "if_index", "priority"} \subseteq
               DOMAIN TreeOf(st, st.reg[i])
        /\ dispatcher_id(TreeOf(st, st.reg[i])) = key}

\* The chain order: priority ascending, ties broken by id ascending.
Before(st, a, b) ==
    LET pa == priority(TreeOf(st, st.reg[a]))
        pb == priority(TreeOf(st, st.reg[b]))
    IN  pa < pb \/ (pa = pb /\ a < b)

RECURSIVE SortChain(_, _)
SortChain(st, ids) ==
    IF ids = {} THEN <<>>
    ELSE LET m == CHOOSE a \in ids : \A b \in ids \ {a} : Before(st, a, b)
         IN  <<m>> \o SortChain(st, ids \ {m})

\* The kernel frees a program that nothing pins any more.
Reap(st) ==
    [st EXCEPT !.kprogs = {p \in @ : ProgPin(p) \in st.pins
                                     \/ LinkPin(p) \in st.pins}]

\* list(): the programs of the registry, read through their handles.
list(st) ==
    [i \in {j \in DOMAIN st.reg : HasTree(st, st.reg[j])} |->
        TreeOf(st, st.reg[i])]

NoAck == [i \in {} |-> EmptyTree]

(***************************************************************************)
(* The steps of add and remove.  Each yields the next engine state, the    *)
(* request with what the step learnt, the step to go to and, for the last  *)
(* step, the reply.                                                        *)
(***************************************************************************)
StepResult(st, rq, next, out) ==
    [e |-> st, rq |-> rq, next |-> next, out |-> out]

\* ProgramData::new, XdpProgram::new / TcProgram::new: the tree of a new
\* program is filled in the temporary database.
StepNew(st, rq) ==
    LET t0 == sled_insert(EmptyTree, "id", rq.rand)
        t1 == sled_insert(t0, "priority", rq.priority)
        t2 == IF rq.kind = "tc" THEN sled_insert(t1, "direction", rq.direction)
              ELSE t1
        t3 == sled_insert(t2, "kind", rq.kind)
        h == Handle("temp", rq.rand)
    IN  StepResult([st EXCEPT !.temp = WithTree(@, rq.rand, t3)],
                   [rq EXCEPT !.h = h], "load", "none")

\* The program is written to the store.  The tree left behind in the
\* temporary database is never read again.
StepLoad(st, rq, failAt) ==
    LET r == load(st, rq.h, failAt)
    IN  IF r.ok
        THEN StepResult([r.e EXCEPT !.temp = drop_tree(@, rq.h.name)],
                        [rq EXCEPT !.h = r.h], "chain", "none")
        ELSE StepResult(r.e, rq, "rollback", "none")

\* The interface is resolved and the dispatcher key known.
StepChain(st, rq) ==
    LET e1 == set_if_index(st, rq.h, rq.if_index)
        key == dispatcher_id(TreeOf(e1, rq.h))
    IN  StepResult(e1, [rq EXCEPT !.key = key, !.oldRev = st.disp[key].rev],
                   "kload", "none")

\* The extension is loaded into the kernel, which gives it its id, and
\* pinned at prog_<id>.
StepKernelLoad(st, rq, ok) ==
    IF ok
    THEN StepResult([st EXCEPT !.kprogs = @ \cup {st.nextKid},
                               !.pins = @ \cup {ProgPin(st.nextKid)},
                               !.nextKid = @ + 1],
                    [rq EXCEPT !.id = st.nextKid], "swap_tree", "none")
    ELSE StepResult(st, rq, "rollback", "none")

\* The tree moves under the kernel id; the new chain is computed.
StepSwapTree(st, rq, failAt) ==
    LET r == swap_tree(st, rq.h, rq.id, failAt)
        e1 == Register(r.e, rq.id, r.h)
    IN  IF r.ok
        THEN StepResult(e1,
                        [rq EXCEPT !.h = r.h,
                                   !.chain = SortChain(e1, Members(e1, rq.key)),
                                   !.newRev = rq.oldRev + 1],
                        "dload", "none")
        ELSE StepResult(r.e, [rq EXCEPT !.h = r.h], "rollback", "none")

\* The dispatcher of the new chain is built and loaded.
StepDispLoad(st, rq, ok) ==
    IF ok
    THEN StepResult([st EXCEPT !.kdisp = @ \cup
                        {[key |-> rq.key, rev |-> rq.newRev,
                          members |-> rq.chain]}],
                    rq, "attach_new", "none")
    ELSE StepResult(st, rq, "rollback", "none")

\* An attach put off until the old dispatcher is gone.
StepAttachNewLate(st, rq, ok) ==
    StepResult(st, rq, IF rq.oldRev # 0 THEN "unpin_old" ELSE "positions",
               "none")

\* The link of the new dispatcher is attached to the hook and pinned.
StepAttachNew(st, rq, ok) ==
    IF ok
    THEN StepResult([st EXCEPT !.hook[rq.key] = rq.newRev,
                               !.dpins = @ \cup {<<rq.key, rq.newRev>>}],
                    rq, IF rq.oldRev # 0 THEN "unpin_old" ELSE "positions",
                    "none")
    ELSE StepResult(st, rq, "rollback", "none")

\* The link of the old dispatcher is unpinned; a link that still held the
\* hook (the chain became empty) is detached with it.
StepUnpinOld(st, rq) ==
    StepResult([st EXCEPT !.dpins = @ \ {<<rq.key, rq.oldRev>>},
                          !.hook[rq.key] = IF @ = rq.oldRev THEN 0 ELSE @],
               rq, "unload_old", "none")

\* The old dispatcher is unloaded.
StepUnloadOld(st, rq) ==
    StepResult([st EXCEPT !.kdisp = {d \in @ : ~(d.key = rq.key
                                                 /\ d.rev = rq.oldRev)}],
               rq, IF rq.chain = <<>> THEN "commit" ELSE "positions", "none")

\* Every member gets its position, its attached flag and its pinned link.
RECURSIVE SetPositions(_, _, _)
SetPositions(st, chain, i) ==
    IF i > Len(chain) THEN st
    ELSE LET h == st.reg[chain[i]]
             e1 == set_position(st, h, i - 1).e
             e2 == set_attached(e1, h)
         IN  SetPositions([e2 EXCEPT !.pins = @ \cup {LinkPin(chain[i])}],
                          chain, i + 1)

StepPositions(st, rq) ==
    StepResult(SetPositions(st, rq.chain, 1), rq, "commit", "none")

\* The dispatcher table is committed; an add is acknowledged.
StepCommit(st, rq) ==
    LET d == IF rq.chain = <<>> THEN NoDisp
             ELSE [rev |-> rq.newRev, members |-> rq.chain]
        e1 == [st EXCEPT !.disp[rq.key] = d, !.dispDb[rq.key] = d]
    IN  IF rq.op = "add" THEN StepResult(e1, rq, "idle", "ok")
        ELSE StepResult(e1, rq, "delete", "none")

\* The removed program is deleted: its tree and its pins, and with the
\* pins the kernel's program.
StepDelete(st, rq, failAt) ==
    LET r == delete(Unregister(st, rq.id), rq.h, failAt)
    IN  StepResult(Reap(r.e), rq, "idle", IF r.ok THEN "ok" ELSE "error")

\* The rollback of a request that failed before the swap: the new
\* dispatcher and the new extension are unloaded, the tentative tree of the
\* new program is dropped, the old dispatcher stays attached.
Rollback(st, rq) ==
    LET e1 == [st EXCEPT !.kdisp = {d \in @ : ~(d.key = rq.key
                                                /\ d.rev = rq.newRev)}]
        e2 == IF rq.op = "add"
              THEN [Unregister(e1, rq.id) EXCEPT
                        !.kprogs = @ \ {rq.id},
                        !.pins = @ \ {ProgPin(rq.id)},
                        !.root = drop_tree(@, rq.h.name),
                        !.temp = drop_tree(@, rq.h.name)]
              ELSE e1
    IN  StepResult(e2, rq, "idle", "error")

\* The request record of an add and of a remove, and the first step of each.
AddReqOn(kind, if_index, direction, prio, rand) ==
    [NoReq EXCEPT !.op = "add", !.kind = kind, !.if_index = if_index,
                  !.direction = direction, !.priority = prio, !.rand = rand]

AddReq(kind, prio, rand) == AddReqOn(kind, 1, "ingress", prio, rand)

RemoveReq(st, id) ==
    LET t == TreeOf(st, st.reg[id])
        key == dispatcher_id(t)
    IN  [NoReq EXCEPT !.op = "remove", !.kind = t["kind"],
                      !.priority = priority(t), !.id = id, !.h = st.reg[id],
                      !.key = key, !.oldRev = st.disp[key].rev,
                      !.newRev = st.disp[key].rev + 1,
                      !.chain = SortChain(st, Members(st, key) \ {id})]

Begin(st, rq) ==
    IF rq.op = "add"
    THEN StepNew(st, AddReqOn(rq.kind, rq.if_index, rq.direction,
                              rq.priority, rq.rand))
    ELSE LET r == RemoveReq(st, rq.id)
         IN  StepResult(st, r,
                        IF r.chain = <<>> THEN "unpin_old" ELSE "dload",
                        "none")

\* A step of a request in which nothing fails.
DoStep(pc, st, rq) ==
    CASE pc = "load" -> StepLoad(st, rq, 0)
      [] pc = "chain" -> StepChain(st, rq)
      [] pc = "kload" -> StepKernelLoad(st, rq, TRUE)
      [] pc = "swap_tree" -> StepSwapTree(st, rq, 0)
      [] pc = "dload" -> StepDispLoad(st, rq, TRUE)
      [] pc = "attach_new" -> StepAttachNew(st, rq, TRUE)
      [] pc = "unpin_old" -> StepUnpinOld(st, rq)
      [] pc = "unload_old" -> StepUnloadOld(st, rq)
      [] pc = "positions" -> StepPositions(st, rq)
      [] pc = "commit" -> StepCommit(st, rq)
      [] pc = "delete" -> StepDelete(st, rq, 0)
      [] OTHER -> StepResult(st, rq, "idle", "error")

RECURSIVE RunToEnd(_)
RunToEnd(r) ==
    IF r.next = "idle" THEN r.e ELSE RunToEnd(DoStep(r.next, r.e, r.rq))

\* The state a fully successful request rq leaves when it starts in st.
Post(st, rq) == RunToEnd(Begin(st, rq))

\* What a request is held to leave whole: the registry trees, the
\* dispatcher chains, the pins and the kernel objects.
Observed(st) ==
    [root |-> st.root, reg |-> st.reg, disp |-> st.disp,
     dispDb |-> st.dispDb, pins |-> st.pins, dpins |-> st.dpins,
     kprogs |-> st.kprogs, kdisp |-> st.kdisp, hook |-> st.hook]

(***************************************************************************)
(* Kill and recovery.                                                      *)
(***************************************************************************)

\* The daemon dies: its memory and the temporary database are lost, the
\* kernel frees what no pin holds.
AfterKill(st) ==
    [Reap(st) EXCEPT
        !.temp = EmptyDb,
        !.reg = [i \in {} |-> NoHandle],
        !.disp = [k \in DispatcherKeys |-> NoDisp],
        !.kdisp = {d \in @ : <<d.key, d.rev>> \in st.dpins},
        !.hook = [k \in DispatcherKeys |->
                    IF <<k, @[k]>> \in st.dpins THEN @[k] ELSE 0]]

\* Recovery of one dispatcher key: the canonical chain is recomputed; the
\* dispatcher attached at the hook stays and the other dispatchers of the
\* key are unloaded; a chain with no dispatcher attached gets a new one.
RebuildKey(st, key) ==
    LET chain == SortChain(st, Members(st, key))
        rev == IF chain = <<>> THEN 0
               ELSE IF st.hook[key] # 0 THEN st.hook[key]
               ELSE st.dispDb[key].rev + 1
        d == IF chain = <<>> THEN NoDisp
             ELSE [rev |-> rev, members |-> chain]
        kept == {x \in st.kdisp : x.key # key \/ (x.rev = rev /\ rev # 0)}
        built == IF rev # 0 /\ st.hook[key] = 0
                 THEN {[key |-> key, rev |-> rev, members |-> chain]}
                 ELSE {}
        e1 == [st EXCEPT
                 !.kdisp = kept \cup built,
                 !.dpins = {p \in @ : p[1] # key}
                           \cup (IF rev # 0 THEN {<<key, rev>>} ELSE {}),
                 !.hook[key] = rev,
                 !.disp[key] = d,
                 !.dispDb[key] = d]
    IN  SetPositions(e1, chain, 1)

\* rebuild_state(): every program tree that new_from_db accepts and whose
\* pin prog_<id> is there is registered again; the others are orphans.
rebuild_state(st) ==
    LET progs == {i \in DOMAIN st.root :
                     new_from_db(i, st.root[i]).tag = "Ok" /\ ProgPin(i) \in st.pins}
        e0 == [st EXCEPT !.reg = [i \in progs |-> Handle("root", i)]]
    IN  RebuildKey(RebuildKey(e0, XdpKey), TcKey)

(***************************************************************************)
(* The engine's actions.                                                    *)
(***************************************************************************)
NoList == [valid |-> FALSE, progs |-> NoAck]

NoCall == [fn |-> "none"]
NoRet == [tag |-> "none"]

\* No function of models.rs has been called.
ModelsAtRest ==
    /\ call = NoCall
    /\ ret = NoRet

\* The engine with nothing loaded and no request made.
EngineAtRest ==
    /\ eng = EngInit
    /\ engPc = "idle"
    /\ req = NoReq
    /\ preEng = EngInit
    /\ outcome = "none"
    /\ lastAck = NoList
    /\ kills = 0
    /\ killedAt = "none"
    /\ failures = 0

\* serve() as the engine specification holds it: not started, with no
\* static programs and no storage manager.
ServeAtRest ==
    /\ mainPc = "start"
    /\ result = "none"
    /\ recovered = FALSE
    /\ enabled = [e \in Endpoints |-> EndpointEnabled[e]]
    /\ csi_support = FALSE
    /\ static_programs = <<>>
    /\ staticApplied = <<>>
    /\ csiSpawned = FALSE
    /\ lstIdx = 1
    /\ lst = [e \in Endpoints |-> "pending"]
    /\ queue = <<>>
    /\ nextSeq = 1
    /\ processed = <<>>
    /\ cmdPc = "recv"
    /\ curCmd = NoCmd
    /\ sdMain = "new"
    /\ nKernel = 0
    /\ nCommit = 0
    /\ sigCount = 0
    /\ sigDuringCmd = FALSE
    /\ handlerInstalled = FALSE

Init == EngineAtRest /\ ServeAtRest /\ ModelsAtRest

\* A step's result becomes the state; the last step replies.  The request
\* and the state it began in are kept for a request that failed.
Advance(r, injected) ==
    /\ injected => failures < MaxFailures
    /\ failures' = IF injected THEN failures + 1 ELSE failures
    /\ eng' = r.e
    /\ engPc' = r.next
    /\ outcome' = IF r.next = "idle" THEN r.out ELSE outcome
    /\ req' = IF r.next = "idle" /\ r.out = "ok" THEN NoReq ELSE r.rq
    /\ preEng' = IF r.next = "idle" /\ r.out = "ok" THEN EngInit ELSE preEng
    /\ lastAck' = IF r.next = "idle" /\ r.out = "ok"
                  THEN [valid |-> TRUE, progs |-> list(r.e)]
                  ELSE lastAck
    /\ UNCHANGED <<kills, killedAt>>
    /\ UNCHANGED <<serveVars, fnVars>>

StartRequest(r) ==
    /\ eng' = r.e
    /\ req' = r.rq
    /\ engPc' = r.next
    /\ preEng' = eng
    /\ outcome' = "none"
    /\ lastAck' = NoList
    /\ killedAt' = "none"
    /\ UNCHANGED <<kills, failures>>
    /\ UNCHANGED <<serveVars, fnVars>>

StartAdd(kind, prio, rand) ==
    /\ engPc = "idle"
    /\ eng.nextKid <= MaxKernelIds
    /\ rand \notin DOMAIN eng.root
    /\ StartRequest(Begin(eng, AddReq(kind, prio, rand)))

StartRemove(id) ==
    /\ engPc = "idle"
    /\ id \in DOMAIN eng.reg
    /\ HasTree(eng, eng.reg[id])
    /\ StartRequest(Begin(eng, [NoReq EXCEPT !.op = "remove", !.id = id]))

Load(failAt) ==
    /\ engPc = "load"
    /\ failAt <= Len(Entries(TreeOf(eng, req.h)))
    /\ Advance(StepLoad(eng, req, failAt), failAt # 0)

ResolveChain ==
    /\ engPc = "chain"
    /\ Advance(StepChain(eng, req), FALSE)

KernelLoad(ok) ==
    /\ engPc = "kload"
    /\ Advance(StepKernelLoad(eng, req, ok), ~ok)

SwapTree(failAt) ==
    /\ engPc = "swap_tree"
    /\ failAt <= Len(Entries(TreeOf(eng, req.h))) + 1
    /\ Advance(StepSwapTree(eng, req, failAt), failAt # 0)

DispLoad(ok) ==
    /\ engPc = "dload"
    /\ Advance(StepDispLoad(eng, req, ok), ~ok)

AttachNew(ok) ==
    /\ engPc = "attach_new"
    /\ Advance(StepAttachNew(eng, req, ok), ~ok)

UnpinOld ==
    /\ engPc = "unpin_old"
    /\ Advance(StepUnpinOld(eng, req), FALSE)

UnloadOld ==
    /\ engPc = "unload_old"
    /\ Advance(StepUnloadOld(eng, req), FALSE)

Positions ==
    /\ engPc = "positions"
    /\ Advance(StepPositions(eng, req), FALSE)

Commit ==
    /\ engPc = "commit"
    /\ Advance(StepCommit(eng, req), FALSE)

\* The failures injected into delete are those of its file removals.
Delete(failAt) ==
    /\ engPc = "delete"
    /\ failAt # 1
    /\ Advance(StepDelete(eng, req, failAt), failAt # 0)

RollbackRequest ==
    /\ engPc = "rollback"
    /\ Advance(Rollback(eng, req), FALSE)

Kill ==
    /\ engPc # "down"
    /\ kills < MaxKills
    /\ eng' = AfterKill(eng)
    /\ engPc' = "down"
    /\ killedAt' = engPc
    /\ kills' = kills + 1
    /\ outcome' = "killed"
    /\ UNCHANGED <<req, preEng, lastAck, failures>>
    /\ UNCHANGED <<serveVars, fnVars>>

Recovery ==
    /\ engPc = "down"
    /\ eng' = rebuild_state(eng)
    /\ engPc' = "idle"
    /\ outcome' = "recovered"
    /\ UNCHANGED <<req, preEng, lastAck, kills, killedAt, failures>>
    /\ UNCHANGED <<serveVars, fnVars>>

FailPoints == 0..(Len(KeyOrder) + 1)

Next ==
    \/ \E kind \in {"xdp", "tc"}, prio \in Priorities, rand \in RandIds :
          StartAdd(kind, prio, rand)
    \/ \E id \in KernelIds : StartRemove(id)
    \/ \E failAt \in FailPoints : Load(failAt)
    \/ ResolveChain
    \/ \E ok \in BOOLEAN : KernelLoad(ok)
    \/ \E failAt \in FailPoints : SwapTree(failAt)
    \/ \E ok \in BOOLEAN : DispLoad(ok)
    \/ \E ok \in BOOLEAN : AttachNew(ok)
    \/ UnpinOld
    \/ UnloadOld
    \/ Positions
    \/ Commit
    \/ \E failAt \in 0..3 : Delete(failAt)
    \/ RollbackRequest
    \/ Kill
    \/ Recovery

Spec == Init /\ [][Next]_vars

(***************************************************************************)
(* Whole requests: adds and removes that run to their reply with nothing   *)
(* failing, on any of the hooks.                                           *)
(***************************************************************************)
Done(rq) ==
    /\ eng' = Post(eng, rq)
    /\ req' = rq
    /\ preEng' = eng
    /\ outcome' = "ok"
    /\ UNCHANGED <<engPc, lastAck, kills, killedAt, failures>>
    /\ UNCHANGED <<serveVars, fnVars>>

AddDone(kind, if_index, direction, prio, rand) ==
    /\ engPc = "idle"
    /\ eng.nextKid <= MaxKernelIds
    /\ rand \notin DOMAIN eng.root
    /\ kind = "xdp" => direction = "ingress"
    /\ Done(AddReqOn(kind, if_index, direction, prio, rand))

RemoveDone(id) ==
    /\ engPc = "idle"
    /\ id \in DOMAIN eng.reg
    /\ HasTree(eng, eng.reg[id])
    /\ Done([NoReq EXCEPT !.op = "remove", !.id = id])

InitChains == EngineAtRest /\ ServeAtRest /\ ModelsAtRest

NextChains ==
    \/ \E kind \in {"xdp", "tc"}, if_index \in IfIndexes,
          direction \in DirectionNames, prio \in Priorities,
          rand \in RandIds :
          AddDone(kind, if_index, direction, prio, rand)
    \/ \E id \in KernelIds : RemoveDone(id)

SpecChains == InitChains /\ [][NextChains]_vars

(***************************************************************************)
(* serve(): helpers                                                        *)
(***************************************************************************)

\* shutdown_handler() completes on either signal it listens for.
shutdown_handler(sig) == sig \in {"SIGINT", "SIGTERM"}

\* The servers that are alive (spawned and not yet shut down).
LiveStates == {"spawned", "listening", "signalled"}

\* Dropping the Runtime (serve() owns it) cancels every spawned task.
RuntimeDropped == [e \in Endpoints |->
                     IF lst[e] \in LiveStates THEN "stopped" ELSE lst[e]]

\* serve() returns r: its locals, the Runtime among them, are dropped.
Return(r) ==
    /\ mainPc' = "returned"
    /\ result' = r
    /\ lst' = RuntimeDropped

\* The spawned tasks run from the first runtime.spawn until the Runtime drops.
RuntimeAlive == mainPc \notin {"start", "returned"}

\* A receiver that yields the newest command instead of the oldest.
RecvFromNewest(q) == [cmd |-> q[Len(q)], rest |-> SubSeq(q, 1, Len(q) - 1)]

\* What recv() on the channel yields, and what stays in the channel: the
\* channel hands out the commands in the order they were sent.
RecvFrom(q) == [cmd |-> Head(q), rest |-> Tail(q)]

\* process_command() is suspended (at an .await) rather than running.
AtAwaitPoint == cmdPc \in {"recv", "await_image"}

\* process_command() polled by a task of its own, spawned with the listeners.
CommandLoopSpawned == mainPc \notin {"start", "returned"}

\* The loop of serve() is what polls process_command().
CommandLoopRunning == mainPc = "loop"

\* Who is mutating the registry or a dispatcher right now.
Mutators ==
    (IF mainPc = "rebuild" THEN {"recovery"} ELSE {})
    \cup (IF mainPc = "static_add" THEN {"static"} ELSE {})
    \cup (IF cmdPc \in {"kernel", "commit"} THEN {"queue"} ELSE {})

(***************************************************************************)
(* serve(): the main thread up to the loop                                 *)
(***************************************************************************)

InitServe ==
    /\ EngineAtRest
    /\ ModelsAtRest
    /\ mainPc = "start"
    /\ result = "none"
    /\ recovered = FALSE
    /\ enabled = [e \in Endpoints |-> EndpointEnabled[e]]
    /\ csi_support \in BOOLEAN
    /\ static_programs \in {[i \in 1..n |-> i] : n \in 0..MaxStatic}
    /\ staticApplied = <<>>
    /\ csiSpawned = FALSE
    /\ lstIdx = 1
    /\ lst = [e \in Endpoints |-> "pending"]
    /\ queue = <<>>
    /\ nextSeq = 1
    /\ processed = <<>>
    /\ cmdPc = "recv"
    /\ curCmd = NoCmd
    /\ sdMain = "new"
    /\ nKernel = 0
    /\ nCommit = 0
    /\ sigCount = 0
    /\ sigDuringCmd = FALSE
    /\ handlerInstalled = FALSE

\* The channel, the loader and the service are built, the listeners task is
\* spawned on the runtime, and ImageManager::new(..)? is called: its failure
\* makes serve() return, its success spawns the image manager task.
SpawnListeners(ok) ==
    /\ mainPc = "start"
    /\ IF ok THEN /\ mainPc' = "rebuild"
                  /\ UNCHANGED <<result, lst>>
             ELSE Return("ImageManagerErr")
    /\ UNCHANGED <<engVars, fnVars>>
    /\ UNCHANGED <<recovered, enabled, csi_support, static_programs,
                   staticApplied, csiSpawned, lstIdx, queue, nextSeq,
                   processed, cmdPc, curCmd, sdMain, nKernel, nCommit,
                   sigCount, sigDuringCmd, handlerInstalled>>

\* rebuild_state() with its result dropped instead of returned.
RebuildStateUnchecked(ok) ==
    /\ mainPc = "rebuild"
    /\ mainPc' = "get_static"
    /\ recovered' = ok
    /\ UNCHANGED <<engVars, fnVars>>
    /\ UNCHANGED <<result, lst, enabled, csi_support, static_programs,
                   staticApplied, csiSpawned, lstIdx, queue, nextSeq, processed,
                   cmdPc, curCmd, sdMain, nKernel, nCommit, sigCount,
                   sigDuringCmd, handlerInstalled>>

\* bpf_manager.rebuild_state()?
RebuildState(ok) ==
    /\ mainPc = "rebuild"
    /\ IF ok THEN /\ mainPc' = "get_static"
                  /\ recovered' = TRUE
                  /\ UNCHANGED <<result, lst>>
             ELSE /\ Return("RebuildErr")
                  /\ UNCHANGED recovered
    /\ UNCHANGED <<engVars, fnVars>>
    /\ UNCHANGED <<enabled, csi_support, static_programs, staticApplied,
                   csiSpawned, lstIdx, queue, nextSeq, processed,
                   cmdPc, curCmd, sdMain, nKernel, nCommit, sigCount,
                   sigDuringCmd, handlerInstalled>>

\* get_static_programs(static_program_path)?
GetStaticPrograms(ok) ==
    /\ mainPc = "get_static"
    /\ IF ok THEN /\ mainPc' = IF static_programs = <<>> THEN "spawn_storage"
                                                        ELSE "static_add"
                  /\ UNCHANGED <<result, lst>>
             ELSE Return("StaticManifestErr")
    /\ UNCHANGED <<engVars, fnVars>>
    /\ UNCHANGED <<recovered, enabled, csi_support, static_programs,
                   staticApplied, csiSpawned, lstIdx, queue, nextSeq,
                   processed, cmdPc, curCmd, sdMain, nKernel, nCommit,
                   sigCount, sigDuringCmd, handlerInstalled>>

\* The static program the for loop is at.
StaticNext == static_programs[Len(staticApplied) + 1]

\* A for loop that stops at the first static program that fails and goes on
\* to the command loop.
StaticAddBreak(ok) ==
    /\ mainPc = "static_add"
    /\ IF ok THEN /\ staticApplied' = Append(staticApplied, StaticNext)
                  /\ mainPc' = IF Len(staticApplied) + 1 = Len(static_programs)
                               THEN "spawn_storage" ELSE "static_add"
             ELSE /\ mainPc' = "spawn_storage"
                  /\ UNCHANGED staticApplied
    /\ UNCHANGED <<engVars, fnVars>>
    /\ UNCHANGED <<result, lst, recovered, enabled, csi_support, static_programs,
                   csiSpawned, lstIdx, queue, nextSeq, processed,
                   cmdPc, curCmd, sdMain, nKernel, nCommit, sigCount,
                   sigDuringCmd, handlerInstalled>>

\* bpf_manager.add_program(prog)? on the static program the for loop is at:
\* on success the next program of the manifest, or the end of the loop; on
\* failure serve() returns the error.
StaticAdd(ok) ==
    /\ mainPc = "static_add"
    /\ IF ok THEN /\ staticApplied' = Append(staticApplied, StaticNext)
                  /\ mainPc' = IF Len(staticApplied) + 1 = Len(static_programs)
                               THEN "spawn_storage" ELSE "static_add"
                  /\ UNCHANGED <<result, lst>>
             ELSE /\ Return("StaticAddErr")
                  /\ UNCHANGED staticApplied
    /\ UNCHANGED <<engVars, fnVars>>
    /\ UNCHANGED <<recovered, enabled, csi_support, static_programs,
                   csiSpawned, lstIdx, queue, nextSeq, processed,
                   cmdPc, curCmd, sdMain, nKernel, nCommit, sigCount,
                   sigDuringCmd, handlerInstalled>>

\* The for loop has consumed the manifest; if csi_support the storage manager
\* is spawned with tx; then the loop.
SpawnStorageManager ==
    /\ mainPc = "spawn_storage"
    /\ csiSpawned' = csi_support
    /\ static_programs' = <<>>
    /\ staticApplied' = <<>>
    /\ mainPc' = "loop"
    /\ UNCHANGED <<engVars, fnVars>>
    /\ UNCHANGED <<result, recovered, enabled, csi_support, lstIdx, lst, queue,
                   nextSeq, processed, cmdPc, curCmd, sdMain, nKernel, nCommit,
                   sigCount, sigDuringCmd, handlerInstalled>>

(***************************************************************************)
(* The listeners task and the servers of the Unix endpoints                *)
(***************************************************************************)

\* for endpoint in endpoints: a disabled endpoint is skipped.
ListenerSkip(e) ==
    /\ RuntimeAlive
    /\ lstIdx = e
    /\ ~enabled[e]
    /\ lst' = [lst EXCEPT ![e] = "skipped"]
    /\ lstIdx' = e + 1
    /\ UNCHANGED <<engVars, fnVars>>
    /\ UNCHANGED <<mainPc, result, recovered, enabled, csi_support,
                   static_programs, staticApplied, csiSpawned, queue,
                   nextSeq, processed, cmdPc, curCmd, sdMain, nKernel, nCommit,
                   sigCount, sigDuringCmd, handlerInstalled>>

\* serve_unix(path, service).await: the socket is bound and the server is
\* spawned, or the error is printed and the loop goes on.
ServeUnix(e, ok) ==
    /\ RuntimeAlive
    /\ lstIdx = e
    /\ enabled[e]
    /\ lst' = [lst EXCEPT ![e] = IF ok THEN "spawned" ELSE "bind_failed"]
    /\ lstIdx' = e + 1
    /\ UNCHANGED <<engVars, fnVars>>
    /\ UNCHANGED <<mainPc, result, recovered, enabled, csi_support,
                   static_programs, staticApplied, csiSpawned, queue,
                   nextSeq, processed, cmdPc, curCmd, sdMain, nKernel, nCommit,
                   sigCount, sigDuringCmd, handlerInstalled>>

\* First poll of the spawned server: it listens, and its shutdown_handler()
\* registers for the two signals.
ServerStart(e) ==
    /\ RuntimeAlive
    /\ lst[e] = "spawned"
    /\ lst' = [lst EXCEPT ![e] = "listening"]
    /\ handlerInstalled' = TRUE
    /\ UNCHANGED <<engVars, fnVars>>
    /\ UNCHANGED <<mainPc, result, recovered, enabled, csi_support,
                   static_programs, staticApplied, csiSpawned, lstIdx, queue, nextSeq, processed, cmdPc, curCmd, sdMain, nKernel,
                   nCommit, sigCount, sigDuringCmd>>

\* A server accepts connections until its shutdown future has completed.
Accepting(e) == lst[e] \in {"listening", "signalled"}

\* tx.send(cmd): the command joins the channel behind the ones already there.
Enqueue(src, kind) ==
    /\ nextSeq <= MaxCmds
    /\ Len(queue) < ChannelCap
    /\ queue' = Append(queue, [src |-> src, seq |-> nextSeq, kind |-> kind,
                               early |-> ~recovered])
    /\ nextSeq' = nextSeq + 1

\* A connection accepted by a server carries a request to BpfdLoader, which
\* sends its command.
GrpcRequest(c, e, kind) ==
    /\ RuntimeAlive
    /\ Accepting(e)
    /\ Enqueue(c, kind)
    /\ UNCHANGED <<engVars, fnVars>>
    /\ UNCHANGED <<mainPc, result, recovered, enabled, csi_support,
                   static_programs, staticApplied, csiSpawned, lstIdx, lst,
                   processed, cmdPc, curCmd, sdMain, nKernel, nCommit,
                   sigCount, sigDuringCmd, handlerInstalled>>

\* The storage manager sends a command through its clone of tx.
CsiRequest ==
    /\ RuntimeAlive
    /\ csiSpawned
    /\ Enqueue("csi", "load")
    /\ UNCHANGED <<engVars, fnVars>>
    /\ UNCHANGED <<mainPc, result, recovered, enabled, csi_support,
                   static_programs, staticApplied, csiSpawned, lstIdx, lst,
                   processed, cmdPc, curCmd, sdMain, nKernel, nCommit,
                   sigCount, sigDuringCmd, handlerInstalled>>

\* serve_with_incoming_shutdown: the shutdown future has completed, the server
\* stops.
ServerShutdown(e) ==
    /\ RuntimeAlive
    /\ lst[e] = "signalled"
    /\ lst' = [lst EXCEPT ![e] = "stopped"]
    /\ UNCHANGED <<engVars, fnVars>>
    /\ UNCHANGED <<mainPc, result, recovered, enabled, csi_support,
                   static_programs, staticApplied, csiSpawned, lstIdx, queue, nextSeq, processed, cmdPc, curCmd, sdMain, nKernel,
                   nCommit, sigCount, sigDuringCmd, handlerInstalled>>

(***************************************************************************)
(* The loop of serve(): a select over shutdown_handler() and               *)
(* process_command(), both created anew by every iteration                 *)
(***************************************************************************)

\* Where process_command() goes once it has its command.
FirstStep(kind) ==
    CASE kind \in MutatingKinds -> "kernel"
      [] kind = "pull_image"    -> "await_image"
      [] OTHER                  -> "reply"

\* process_command(): recv() yields a command.
Recv ==
    /\ CommandLoopRunning
    /\ cmdPc = "recv"
    /\ queue # <<>>
    /\ curCmd' = RecvFrom(queue).cmd
    /\ queue' = RecvFrom(queue).rest
    /\ processed' = Append(processed, RecvFrom(queue).cmd)
    /\ cmdPc' = FirstStep(RecvFrom(queue).cmd.kind)
    /\ UNCHANGED <<engVars, fnVars>>
    /\ UNCHANGED <<mainPc, result, recovered, enabled, csi_support,
                   static_programs, staticApplied, csiSpawned, lstIdx, lst,
                   nextSeq, sdMain, nKernel, nCommit, sigCount,
                   sigDuringCmd, handlerInstalled>>

\* process_command(): the kernel side of a load or unload (the dispatcher is
\* rebuilt and swapped); a failure is reported to the client.
KernelMutation(ok) ==
    /\ CommandLoopRunning
    /\ cmdPc = "kernel"
    /\ cmdPc' = IF ok THEN "commit" ELSE "reply"
    /\ nKernel' = IF ok THEN nKernel + 1 ELSE nKernel
    /\ UNCHANGED <<engVars, fnVars>>
    /\ UNCHANGED <<mainPc, result, recovered, enabled, csi_support,
                   static_programs, staticApplied, csiSpawned, lstIdx, lst,
                   queue, nextSeq, processed, curCmd, sdMain, nCommit,
                   sigCount, sigDuringCmd, handlerInstalled>>

\* process_command(): the commit of the mutation to the store.
StoreCommit ==
    /\ CommandLoopRunning
    /\ cmdPc = "commit"
    /\ cmdPc' = "reply"
    /\ nCommit' = nCommit + 1
    /\ UNCHANGED <<engVars, fnVars>>
    /\ UNCHANGED <<mainPc, result, recovered, enabled, csi_support,
                   static_programs, staticApplied, csiSpawned, lstIdx, lst,
                   queue, nextSeq, processed, curCmd, sdMain, nKernel,
                   sigCount, sigDuringCmd, handlerInstalled>>

\* process_command(): the image manager answers the pull it was asked for.
ImageReply ==
    /\ CommandLoopRunning
    /\ cmdPc = "await_image"
    /\ cmdPc' = "reply"
    /\ UNCHANGED <<engVars, fnVars>>
    /\ UNCHANGED <<mainPc, result, recovered, enabled, csi_support,
                   static_programs, staticApplied, csiSpawned, lstIdx, lst,
                   queue, nextSeq, processed, curCmd, sdMain, nKernel,
                   nCommit, sigCount, sigDuringCmd, handlerInstalled>>

\* process_command() answers and returns: its branch of the select wins, the
\* shutdown_handler() future of this iteration is dropped, and the loop goes
\* round.
Reply ==
    /\ CommandLoopRunning
    /\ cmdPc = "reply"
    /\ cmdPc' = "recv"
    /\ curCmd' = NoCmd
    /\ sdMain' = "new"
    /\ UNCHANGED <<engVars, fnVars>>
    /\ UNCHANGED <<mainPc, result, recovered, enabled, csi_support,
                   static_programs, staticApplied, csiSpawned, lstIdx, lst,
                   queue, nextSeq, processed, nKernel, nCommit,
                   sigCount, sigDuringCmd, handlerInstalled>>

\* First poll of the loop's shutdown_handler(): signal(..) registers a listener
\* for each of the two kinds.
ArmShutdown ==
    /\ mainPc = "loop"
    /\ AtAwaitPoint
    /\ sdMain = "new"
    /\ sdMain' = "armed"
    /\ handlerInstalled' = TRUE
    /\ UNCHANGED <<engVars, fnVars>>
    /\ UNCHANGED <<mainPc, result, recovered, enabled, csi_support,
                   static_programs, staticApplied, csiSpawned, lstIdx, lst,
                   queue, nextSeq, processed, cmdPc, curCmd, nKernel,
                   nCommit, sigCount, sigDuringCmd>>

\* A shutdown branch that wins whatever process_command() is doing.
ShutdownBranchPreempting ==
    /\ mainPc = "loop"
    /\ sdMain = "fired"
    /\ Return("Ok")
    /\ UNCHANGED <<engVars, fnVars>>
    /\ UNCHANGED <<recovered, enabled, csi_support, static_programs,
                   staticApplied, csiSpawned, lstIdx, queue, nextSeq,
                   processed, cmdPc, curCmd, sdMain, nKernel, nCommit,
                   sigCount, sigDuringCmd, handlerInstalled>>

\* The shutdown branch of the select wins: serve() returns, and the
\* process_command() future is dropped where it is suspended.
ShutdownBranch ==
    /\ mainPc = "loop"
    /\ AtAwaitPoint
    /\ sdMain = "fired"
    /\ Return("Ok")
    /\ UNCHANGED <<engVars, fnVars>>
    /\ UNCHANGED <<recovered, enabled, csi_support, static_programs,
                   staticApplied, csiSpawned, lstIdx, queue, nextSeq,
                   processed, cmdPc, curCmd, sdMain, nKernel, nCommit,
                   sigCount, sigDuringCmd, handlerInstalled>>

(***************************************************************************)
(* Signals                                                                 *)
(***************************************************************************)

\* A signal listener sees the signals delivered after it registered, while it
\* lives.
Notified(state, armedState, firedState, sig) ==
    IF state = armedState /\ shutdown_handler(sig) THEN firedState ELSE state

\* A signal is delivered while tokio's handlers are installed: every live
\* listener for it is notified.
SignalHandled(sig) ==
    /\ mainPc # "returned"
    /\ sigCount < MaxSignals
    /\ handlerInstalled
    /\ sigCount' = sigCount + 1
    /\ sdMain' = Notified(sdMain, "armed", "fired", sig)
    /\ lst' = [e \in Endpoints |-> Notified(lst[e], "listening", "signalled", sig)]
    /\ sigDuringCmd' = (sigDuringCmd \/ (shutdown_handler(sig)
                                         /\ cmdPc \in {"kernel", "commit"}))
    /\ UNCHANGED <<engVars, fnVars>>
    /\ UNCHANGED <<mainPc, result, recovered, enabled, csi_support,
                   static_programs, staticApplied, csiSpawned, lstIdx, queue, nextSeq, processed, cmdPc, curCmd, nKernel, nCommit,
                   handlerInstalled>>

\* A signal is delivered before any handler is installed: its default action
\* ends the process.
SignalDefault(sig) ==
    /\ mainPc # "returned"
    /\ sigCount < MaxSignals
    /\ ~handlerInstalled
    /\ sigCount' = sigCount + 1
    /\ Return("Killed")
    /\ UNCHANGED <<engVars, fnVars>>
    /\ UNCHANGED <<recovered, enabled, csi_support, static_programs,
                   staticApplied, csiSpawned, lstIdx, queue, nextSeq,
                   processed, cmdPc, curCmd, sdMain, nKernel, nCommit,
                   sigDuringCmd, handlerInstalled>>

(***************************************************************************)
(* The specification of serve()                                            *)
(***************************************************************************)

MainNext ==
    \/ \E ok \in BOOLEAN : SpawnListeners(ok)
    \/ \E ok \in BOOLEAN : RebuildState(ok)
    \/ \E ok \in BOOLEAN : GetStaticPrograms(ok)
    \/ \E ok \in BOOLEAN : StaticAdd(ok)
    \/ SpawnStorageManager
    \/ Recv
    \/ \E ok \in BOOLEAN : KernelMutation(ok)
    \/ StoreCommit
    \/ ImageReply
    \/ Reply
    \/ ArmShutdown
    \/ ShutdownBranch

ServerNext ==
    \/ \E e \in Endpoints : ListenerSkip(e)
    \/ \E e \in Endpoints, ok \in BOOLEAN : ServeUnix(e, ok)
    \/ \E e \in Endpoints : ServerStart(e)
    \/ \E e \in Endpoints : ServerShutdown(e)

ClientNext ==
    \/ \E c \in Conns, e \in Endpoints, kind \in CmdKinds : GrpcRequest(c, e, kind)
    \/ CsiRequest

SignalNext ==
    \/ \E sig \in Signals : SignalHandled(sig)
    \/ \E sig \in Signals : SignalDefault(sig)

NextServe == MainNext \/ ServerNext \/ ClientNext \/ SignalNext

SpecServe == InitServe /\ [][NextServe]_vars

\* The runtime keeps polling the tasks it holds and the main thread keeps
\* running; clients and signals owe nothing.
FairServe == SpecServe /\ WF_vars(MainNext) /\ WF_vars(ServerNext)

(***************************************************************************)
(* models.rs: the enums and their encodings.  A value of an enum is named   *)
(* by its variant; a match is the list of its arms in source order, the    *)
(* first arm whose pattern equals the value giving the result.              *)
(***************************************************************************)

Ok(v) == [tag |-> "Ok", val |-> v]
Err(kind, what) == [tag |-> "Err", val |-> [kind |-> kind, what |-> what]]
Panic(msg) == [tag |-> "panic", val |-> msg]

MatchArm(arms, v) ==
    LET hits == {i \in 1..Len(arms) : arms[i][1] = v}
    IN  IF hits = {} THEN [hit |-> FALSE, val |-> v]
        ELSE [hit |-> TRUE,
              val |-> arms[CHOOSE i \in hits : \A j \in hits : i <= j][2]]

\* A match over a string whose last arm returns Err(kind { other }).
TryMatch(arms, kind, v) ==
    LET m == MatchArm(arms, v)
    IN  IF m.hit THEN Ok(m.val) ELSE Err(kind, v)

\* The same over an integer: the error carries other.to_string().
TryMatchInt(arms, kind, v) ==
    LET m == MatchArm(arms, v)
    IN  IF m.hit THEN Ok(m.val) ELSE Err(kind, ToString(v))

\* enum Direction { Ingress = 1, Egress = 2 }: the cast `as u32`.
Direction_as_u32(d) ==
    MatchArm(<<<<"Ingress", 1>>, <<"Egress", 2>>>>, d).val

Direction_try_from_u32(v) ==
    TryMatchInt(<<<<1, "Ingress">>, <<2, "Egress">>>>, "InvalidDirection", v)

Direction_try_from_string(v) ==
    TryMatch(<<<<"ingress", "Ingress">>, <<"egress", "Egress">>>>,
             "InvalidDirection", v)

Direction_fmt(d) ==
    MatchArm(<<<<"Ingress", "ingress">>, <<"Egress", "egress">>>>, d).val

ProgramType_try_from_string(value) ==
    TryMatch(
        <<<<"unspec", "Unspec">>, <<"socket_filter", "SocketFilter">>,
          <<"probe", "Probe">>, <<"tc", "Tc">>, <<"sched_act", "SchedAct">>,
          <<"tracepoint", "Tracepoint">>, <<"xdp", "Xdp">>,
          <<"perf_event", "PerfEvent">>, <<"cgroup_skb", "CgroupSkb">>,
          <<"cgroup_sock", "CgroupSock">>, <<"lwt_in", "LwtIn">>,
          <<"lwt_out", "LwtOut">>, <<"lwt_xmit", "LwtXmit">>,
          <<"sock_ops", "SockOps">>, <<"sk_skb", "SkSkb">>,
          <<"cgroup_device", "CgroupDevice">>, <<"sk_msg", "SkMsg">>,
          <<"raw_tracepoint", "RawTracepoint">>,
          <<"cgroup_sock_addr", "CgroupSockAddr">>,
          <<"lwt_seg6local", "LwtSeg6Local">>, <<"lirc_mode2", "LircMode2">>,
          <<"sk_reuseport", "SkReuseport">>,
          <<"flow_dissector", "FlowDissector">>,
          <<"cgroup_sysctl", "CgroupSysctl">>,
          <<"raw_tracepoint_writable", "RawTracepointWritable">>,
          <<"cgroup_sockopt", "CgroupSockopt">>, <<"tracing", "Tracing">>,
          <<"struct_ops", "StructOps">>, <<"ext", "Ext">>, <<"lsm", "Lsm">>,
          <<"sk_lookup", "SkLookup">>, <<"syscall", "Syscall">>>>,
        "InvalidProgramType", value)

ProgramType_try_from_u32(value) ==
    TryMatchInt(
        <<<<0, "Unspec">>, <<1, "SocketFilter">>, <<2, "Probe">>, <<3, "Tc">>,
          <<4, "SchedAct">>, <<5, "Tracepoint">>, <<6, "Xdp">>,
          <<7, "PerfEvent">>, <<8, "CgroupSkb">>, <<9, "CgroupSock">>,
          <<10, "LwtIn">>, <<11, "LwtOut">>, <<12, "LwtXmit">>,
          <<13, "SockOps">>, <<14, "SkSkb">>, <<15, "CgroupDevice">>,
          <<16, "SkMsg">>, <<17, "RawTracepoint">>, <<18, "CgroupSockAddr">>,
          <<19, "LwtSeg6Local">>, <<20, "LircMode2">>, <<21, "SkReuseport">>,
          <<22, "FlowDissector">>, <<23, "CgroupSysctl">>,
          <<24, "RawTracepointWritable">>, <<25, "CgroupSockopt">>,
          <<26, "Tracing">>, <<27, "StructOps">>, <<28, "Ext">>, <<29, "Lsm">>,
          <<30, "SkLookup">>, <<31, "Syscall">>>>,
        "InvalidProgramType", value)

\* impl From<ProgramType> for u32.
ProgramType_into_u32(val) ==
    MatchArm(
        <<<<"Unspec", 0>>, <<"SocketFilter", 1>>, <<"Probe", 2>>, <<"Tc", 3>>,
          <<"SchedAct", 4>>, <<"Tracepoint", 5>>, <<"Xdp", 6>>,
          <<"PerfEvent", 7>>, <<"CgroupSkb", 8>>, <<"CgroupSock", 9>>,
          <<"LwtIn", 10>>, <<"LwtOut", 11>>, <<"LwtXmit", 12>>,
          <<"SockOps", 13>>, <<"SkSkb", 14>>, <<"CgroupDevice", 15>>,
          <<"SkMsg", 16>>, <<"RawTracepoint", 17>>, <<"CgroupSockAddr", 18>>,
          <<"LwtSeg6Local", 19>>, <<"LircMode2", 20>>, <<"SkReuseport", 21>>,
          <<"FlowDissector", 22>>, <<"CgroupSysctl", 23>>,
          <<"RawTracepointWritable", 24>>, <<"CgroupSockopt", 25>>,
          <<"Tracing", 26>>, <<"StructOps", 27>>, <<"Ext", 28>>, <<"Lsm", 29>>,
          <<"SkLookup", 30>>, <<"Syscall", 31>>>>,
        val).val

ProgramType_fmt(v) ==
    MatchArm(
        <<<<"Unspec", "unspec">>, <<"SocketFilter", "socket_filter">>,
          <<"Probe", "probe">>, <<"Tc", "tc">>, <<"SchedAct", "sched_act">>,
          <<"Tracepoint", "tracepoint">>, <<"Xdp", "xdp">>,
          <<"PerfEvent", "perf_event">>, <<"CgroupSkb", "cgroup_skb">>,
          <<"CgroupSock", "cgroup_sock">>, <<"LwtIn", "lwt_in">>,
          <<"LwtOut", "lwt_out">>, <<"LwtXmit", "lwt_xmit">>,
          <<"SockOps", "sock_ops">>, <<"SkSkb", "sk_skb">>,
          <<"CgroupDevice", "cgroup_device">>, <<"SkMsg", "sk_msg">>,
          <<"RawTracepoint", "raw_tracepoint">>,
          <<"CgroupSockAddr", "cgroup_sock_addr">>,
          <<"LwtSeg6Local", "lwt_seg6local">>, <<"LircMode2", "lirc_mode2">>,
          <<"SkReuseport", "sk_reuseport">>,
          <<"FlowDissector", "flow_dissector">>,
          <<"CgroupSysctl", "cgroup_sysctl">>,
          <<"RawTracepointWritable", "raw_tracepoint_writable">>,
          <<"CgroupSockopt", "cgroup_sockopt">>, <<"Tracing", "tracing">>,
          <<"StructOps", "struct_ops">>, <<"Ext", "ext">>, <<"Lsm", "lsm">>,
          <<"SkLookup", "sk_lookup">>, <<"Syscall", "syscall">>>>,
        v).val

\* enum XdpProceedOnEntry { Aborted, Drop, Pass, Tx, Redirect,
\* DispatcherReturn = 31 }: the casts `as u32` and `as i32`.
XdpProceedOnEntry_as_i32(e) ==
    MatchArm(<<<<"Aborted", 0>>, <<"Drop", 1>>, <<"Pass", 2>>, <<"Tx", 3>>,
               <<"Redirect", 4>>, <<"DispatcherReturn", 31>>>>, e).val

XdpProceedOnEntry_try_from_string(value) ==
    TryMatch(
        <<<<"aborted", "Aborted">>, <<"drop", "Drop">>, <<"pass", "Pass">>,
          <<"tx", "Tx">>, <<"redirect", "Redirect">>,
          <<"dispatcher_return", "DispatcherReturn">>>>,
        "InvalidProceedOn", value)

XdpProceedOnEntry_try_from_i32(value) ==
    TryMatchInt(
        <<<<0, "Aborted">>, <<1, "Drop">>, <<2, "Pass">>, <<3, "Tx">>,
          <<4, "Redirect">>, <<31, "DispatcherReturn">>>>,
        "InvalidProceedOn", value)

XdpProceedOnEntry_fmt(e) ==
    MatchArm(
        <<<<"Aborted", "aborted">>, <<"Drop", "drop">>, <<"Pass", "pass">>,
          <<"Tx", "tx">>, <<"Redirect", "redirect">>,
          <<"DispatcherReturn", "dispatcher_return">>>>,
        e).val

\* enum TcProceedOnEntry { Unspec = -1, Ok = 0, Reclassify, Shot, Pipe,
\* Stolen, Queued, Repeat, Redirect, Trap, DispatcherReturn = 30 }: the cast
\* `as i32`.
TcProceedOnEntry_as_i32(e) ==
    MatchArm(<<<<"Unspec", -1>>, <<"Ok", 0>>, <<"Reclassify", 1>>,
               <<"Shot", 2>>, <<"Pipe", 3>>, <<"Stolen", 4>>,
               <<"Queued", 5>>, <<"Repeat", 6>>, <<"Redirect", 7>>,
               <<"Trap", 8>>, <<"DispatcherReturn", 30>>>>, e).val

TcProceedOnEntry_try_from_string(value) ==
    TryMatch(
        <<<<"unspec", "Unspec">>, <<"ok", "Ok">>,
          <<"reclassify", "Reclassify">>, <<"shot", "Shot">>,
          <<"pipe", "Pipe">>, <<"stolen", "Stolen">>, <<"queued", "Queued">>,
          <<"repeat", "Repeat">>, <<"redirect", "Redirect">>,
          <<"trap", "Trap">>, <<"dispatcher_return", "DispatcherReturn">>>>,
        "InvalidProceedOn", value)

TcProceedOnEntry_try_from_i32(value) ==
    TryMatchInt(
        <<<<-1, "Unspec">>, <<0, "Ok">>, <<1, "Reclassify">>, <<2, "Shot">>,
          <<3, "Pipe">>, <<4, "Stolen">>, <<5, "Queued">>, <<6, "Repeat">>,
          <<7, "Redirect">>, <<8, "Trap">>, <<30, "DispatcherReturn">>>>,
        "InvalidProceedOn", value)

TcProceedOnEntry_fmt(e) ==
    MatchArm(
        <<<<"Unspec", "unspec">>, <<"Ok", "ok">>,
          <<"Reclassify", "reclassify">>, <<"Shot", "shot">>,
          <<"Pipe", "pipe">>, <<"Stolen", "stolen">>, <<"Queued", "queued">>,
          <<"Repeat", "repeat">>, <<"Redirect", "redirect">>,
          <<"Trap", "trap">>, <<"DispatcherReturn", "dispatcher_return">>>>,
        e).val

ImagePullPolicy_fmt_lowercase(p) ==
    MatchArm(<<<<"Always", "always">>, <<"IfNotPresent", "ifnotpresent">>,
               <<"Never", "never">>>>, p).val

ImagePullPolicy_fmt(p) ==
    MatchArm(
        <<<<"Always", "Always">>, <<"IfNotPresent", "IfNotPresent">>,
          <<"Never", "Never">>>>,
        p).val

ImagePullPolicy_try_from_i32(value) ==
    TryMatchInt(
        <<<<0, "Always">>, <<1, "IfNotPresent">>, <<2, "Never">>>>,
        "InvalidBytecodeImagePullPolicy", value)

ImagePullPolicy_try_from_str(value) ==
    TryMatch(
        <<<<"Always", "Always">>, <<"IfNotPresent", "IfNotPresent">>,
          <<"Never", "Never">>>>,
        "InvalidBytecodeImagePullPolicy", value)

\* impl From<ImagePullPolicy> for i32.
ImagePullPolicy_into_i32(value) ==
    MatchArm(
        <<<<"Always", 0>>, <<"IfNotPresent", 1>>, <<"Never", 2>>>>,
        value).val

(***************************************************************************)
(* models.rs: proceed_on.  XdpProceedOn and TcProceedOn are vectors of     *)
(* entries.  A u32 is kept as its two 16-bit halves <<high, low>>.         *)
(***************************************************************************)
MaxProceedOn == 3   \* longest proceed_on list given to a call

XdpProceedOnEntries ==
    {"Aborted", "Drop", "Pass", "Tx", "Redirect", "DispatcherReturn"}
TcProceedOnEntries ==
    {"Unspec", "Ok", "Reclassify", "Shot", "Pipe", "Stolen", "Queued",
     "Repeat", "Redirect", "Trap", "DispatcherReturn"}

\* i32 and String values clients send as proceed_on entries.
ProceedOnInts == {-1, 0, 2, 3, 30, 31, 32}
ProceedOnStrings == {"pass", "pipe", "dispatcher_return", "unspec", "bogus"}

SeqsUpTo(S, n) == UNION {[1..k -> S] : k \in 0..n}

RECURSIVE BitOr16(_, _, _)
BitOr16(a, b, n) ==
    IF n = 0 THEN 0
    ELSE (IF a % 2 = 1 \/ b % 2 = 1 THEN 1 ELSE 0)
         + 2 * BitOr16(a \div 2, b \div 2, n - 1)

\* a | b on u32.
BitOr(a, b) == <<BitOr16(a[1], b[1], 16), BitOr16(a[2], b[2], 16)>>

\* 1 << n on u32.  The shift amount of a release build wraps at the width
\* of the type; a debug build panics on the amounts that wrap, which no
\* entry has.
Shl1(n) ==
    LET s == n % 32
    IN  IF s < 16 THEN <<0, 2^s>> ELSE <<2^(s - 16), 0>>

\* proceed_on_mask |= 1 << shift, for every shift in order.
RECURSIVE OrShifted(_, _)
OrShifted(shifts, proceed_on_mask) ==
    IF shifts = <<>> THEN proceed_on_mask
    ELSE OrShifted(Tail(shifts), BitOr(proceed_on_mask, Shl1(Head(shifts))))

XdpProceedOn_mask(po) ==
    OrShifted([i \in 1..Len(po) |-> XdpProceedOnEntry_as_i32(po[i])],
              <<0, 0>>)

TcProceedOn_mask_no_offset(po) ==
    OrShifted([i \in 1..Len(po) |-> TcProceedOnEntry_as_i32(po[i])],
              <<0, 0>>)

TcProceedOn_mask(po) ==
    OrShifted([i \in 1..Len(po) |-> TcProceedOnEntry_as_i32(po[i]) + 1],
              <<0, 0>>)

XdpProceedOn_default == <<"Pass", "DispatcherReturn">>
TcProceedOn_default == <<"Pipe", "DispatcherReturn">>

\* for e in entries { res.push(e.try_into()?) }: the first error returns.
TryEach(rs) ==
    LET bad == {i \in 1..Len(rs) : rs[i].tag = "Err"}
    IN  IF bad = {} THEN Ok([i \in 1..Len(rs) |-> rs[i].val])
        ELSE rs[CHOOSE i \in bad : \A j \in bad : i <= j]

XdpProceedOn_from_iter(iter) ==
    IF iter = <<>> THEN XdpProceedOn_default ELSE iter

XdpProceedOn_from_strings(values) ==
    TryEach([i \in 1..Len(values) |->
                XdpProceedOnEntry_try_from_string(values[i])])

XdpProceedOn_from_int32s(values) ==
    IF values = <<>> THEN Ok(XdpProceedOn_default)
    ELSE TryEach([i \in 1..Len(values) |->
                     XdpProceedOnEntry_try_from_i32(values[i])])

TcProceedOn_from_iter(iter) ==
    IF iter = <<>> THEN TcProceedOn_default ELSE iter

TcProceedOn_from_strings(values) ==
    TryEach([i \in 1..Len(values) |->
                TcProceedOnEntry_try_from_string(values[i])])

TcProceedOn_from_int32s(values) ==
    IF values = <<>> THEN Ok(TcProceedOn_default)
    ELSE TryEach([i \in 1..Len(values) |->
                     TcProceedOnEntry_try_from_i32(values[i])])

(***************************************************************************)
(* The calls of the functions of models.rs: each records the function,     *)
(* its arguments and what it returned.  An argument or a returned value is  *)
(* kept under the name of its type.                                         *)
(***************************************************************************)
Typed(ty, v) == [x \in {ty} |-> v]

Returned(ty, r) ==
    CASE r.tag = "Ok" -> [tag |-> "Ok", val |-> Typed(ty, r.val)]
      [] r.tag = "Err" -> [tag |-> "Err", val |-> Typed("error", r.val)]
      [] r.tag = "panic" -> [tag |-> "panic", val |-> Typed("message", r.val)]

Called(fn, argTy, arg, retTy, r) ==
    /\ call' = [fn |-> fn, arg |-> Typed(argTy, arg)]
    /\ ret' = Returned(retTy, r)
    /\ UNCHANGED <<serveVars, engVars>>

CallXdpMask(po) ==
    /\ call.fn = "none"
    /\ Called("XdpProceedOn::mask", "entries", po,
              "u32", Ok(XdpProceedOn_mask(po)))

CallTcMask(po) ==
    /\ call.fn = "none"
    /\ Called("TcProceedOn::mask", "entries", po,
              "u32", Ok(TcProceedOn_mask(po)))

CallXdpFromIter(iter) ==
    /\ call.fn = "none"
    /\ Called("XdpProceedOn::from_iter", "entries", iter,
              "entries", Ok(XdpProceedOn_from_iter(iter)))

CallXdpFromStrings(values) ==
    /\ call.fn = "none"
    /\ Called("XdpProceedOn::from_strings", "strings", values,
              "entries", XdpProceedOn_from_strings(values))

CallXdpFromInt32s(values) ==
    /\ call.fn = "none"
    /\ Called("XdpProceedOn::from_int32s", "ints", values,
              "entries", XdpProceedOn_from_int32s(values))

CallTcFromIter(iter) ==
    /\ call.fn = "none"
    /\ Called("TcProceedOn::from_iter", "entries", iter,
              "entries", Ok(TcProceedOn_from_iter(iter)))

CallTcFromStrings(values) ==
    /\ call.fn = "none"
    /\ Called("TcProceedOn::from_strings", "strings", values,
              "entries", TcProceedOn_from_strings(values))

CallTcFromInt32s(values) ==
    /\ call.fn = "none"
    /\ Called("TcProceedOn::from_int32s", "ints", values,
              "entries", TcProceedOn_from_int32s(values))

\* The caller takes the result.
TakeResult ==
    /\ call.fn # "none"
    /\ call' = NoCall
    /\ ret' = NoRet
    /\ UNCHANGED <<serveVars, engVars>>

(***************************************************************************)
(* The two encodings of every enum: the string of Display and of           *)
(* TryFrom<String> (TryFrom<&str> for ImagePullPolicy), and the integer of  *)
(* the cast or of From and of TryFrom<u32> or TryFrom<i32>.                 *)
(***************************************************************************)
EnumTypes ==
    {"ProgramType", "Direction", "ImagePullPolicy", "XdpProceedOnEntry",
     "TcProceedOnEntry"}

ProgramTypes ==
    {"Unspec", "SocketFilter", "Probe", "Tc", "SchedAct", "Tracepoint",
     "Xdp", "PerfEvent", "CgroupSkb", "CgroupSock", "LwtIn", "LwtOut",
     "LwtXmit", "SockOps", "SkSkb", "CgroupDevice", "SkMsg",
     "RawTracepoint", "CgroupSockAddr", "LwtSeg6Local", "LircMode2",
     "SkReuseport", "FlowDissector", "CgroupSysctl",
     "RawTracepointWritable", "CgroupSockopt", "Tracing", "StructOps",
     "Ext", "Lsm", "SkLookup", "Syscall"}
Directions == {"Ingress", "Egress"}
ImagePullPolicies == {"Always", "IfNotPresent", "Never"}

Variants(ty) ==
    CASE ty = "ProgramType" -> ProgramTypes
      [] ty = "Direction" -> Directions
      [] ty = "ImagePullPolicy" -> ImagePullPolicies
      [] ty = "XdpProceedOnEntry" -> XdpProceedOnEntries
      [] ty = "TcProceedOnEntry" -> TcProceedOnEntries

Display(ty, v) ==
    CASE ty = "ProgramType" -> ProgramType_fmt(v)
      [] ty = "Direction" -> Direction_fmt(v)
      [] ty = "ImagePullPolicy" -> ImagePullPolicy_fmt(v)
      [] ty = "XdpProceedOnEntry" -> XdpProceedOnEntry_fmt(v)
      [] ty = "TcProceedOnEntry" -> TcProceedOnEntry_fmt(v)

TryFromString(ty, s) ==
    CASE ty = "ProgramType" -> ProgramType_try_from_string(s)
      [] ty = "Direction" -> Direction_try_from_string(s)
      [] ty = "ImagePullPolicy" -> ImagePullPolicy_try_from_str(s)
      [] ty = "XdpProceedOnEntry" -> XdpProceedOnEntry_try_from_string(s)
      [] ty = "TcProceedOnEntry" -> TcProceedOnEntry_try_from_string(s)

IntoInt(ty, v) ==
    CASE ty = "ProgramType" -> ProgramType_into_u32(v)
      [] ty = "Direction" -> Direction_as_u32(v)
      [] ty = "ImagePullPolicy" -> ImagePullPolicy_into_i32(v)
      [] ty = "XdpProceedOnEntry" -> XdpProceedOnEntry_as_i32(v)
      [] ty = "TcProceedOnEntry" -> TcProceedOnEntry_as_i32(v)

TryFromInt(ty, n) ==
    CASE ty = "ProgramType" -> ProgramType_try_from_u32(n)
      [] ty = "Direction" -> Direction_try_from_u32(n)
      [] ty = "ImagePullPolicy" -> ImagePullPolicy_try_from_i32(n)
      [] ty = "XdpProceedOnEntry" -> XdpProceedOnEntry_try_from_i32(n)
      [] ty = "TcProceedOnEntry" -> TcProceedOnEntry_try_from_i32(n)

\* Integers and strings that reach the parsers: u32 for ProgramType and
\* Direction, i32 for the others.
IntInputs(ty) ==
    IF ty \in {"ProgramType", "Direction"} THEN 0..33 ELSE (-2)..33
EnumValues == UNION {{<<ty, v>> : v \in Variants(ty)} : ty \in EnumTypes}
EnumInts == UNION {{<<ty, n>> : n \in IntInputs(ty)} : ty \in EnumTypes}
StringInputs ==
    UNION {{Display(ty, v) : v \in Variants(ty)} : ty \in EnumTypes}
        \cup {"", "bogus", "Ingress", "XDP", "always", "kprobe"}

\* BytecodeImage::new.
BytecodeImage_new(image_url, image_pull_policy, username, password) ==
    LET policy == ImagePullPolicy_try_from_i32(image_pull_policy)
    IN  IF policy.tag = "Ok"
        THEN Ok([image_url |-> image_url, image_pull_policy |-> policy.val,
                 username |-> username, password |-> password])
        ELSE Panic("Unable to parse ImagePullPolicy")

\* A value is written as a string and the string parsed, as set_location
\* and get_location do with the pull policy.
CallDisplayParse(ty, v) ==
    /\ call.fn = "none"
    /\ Called("to_string;try_from", "value", <<ty, v>>,
              "variant", TryFromString(ty, Display(ty, v)))

\* A value is converted to its integer and the integer parsed.
CallIntoParse(ty, v) ==
    /\ call.fn = "none"
    /\ Called("into;try_from", "value", <<ty, v>>,
              "variant", TryFromInt(ty, IntoInt(ty, v)))

CallTryFromString(ty, s) ==
    /\ call.fn = "none"
    /\ Called("try_from(String)", "string", <<ty, s>>,
              "variant", TryFromString(ty, s))

CallTryFromInt(ty, n) ==
    /\ call.fn = "none"
    /\ Called("try_from(int)", "int", <<ty, n>>,
              "variant", TryFromInt(ty, n))

CallBytecodeImageNew(image_pull_policy) ==
    /\ call.fn = "none"
    /\ Called("BytecodeImage::new", "policy", image_pull_policy,
              "image",
              BytecodeImage_new("quay.io/bpfman/xdp_pass", image_pull_policy,
                                "none", "none"))

(***************************************************************************)
(* ListFilter::matches.  A program is its variant with what the getters of *)
(* its data return: get_kernel_program_type() and get_metadata(), each Ok   *)
(* with a value or Err.  A HashMap<String, String> is a function from its   *)
(* keys.                                                                    *)
(***************************************************************************)
ProgramVariants ==
    {"Xdp", "Tc", "Tracepoint", "Kprobe", "Uprobe", "Fentry", "Fexit",
     "Unsupported"}

None == [some |-> FALSE, val |-> 0]
Some(v) == [some |-> TRUE, val |-> v]

Got(v) == [ok |-> TRUE, val |-> v]
NotGot(v) == [ok |-> FALSE, val |-> v]

\* Program types a filter asks for and the kernel reports, metadata keys
\* and values.
ProgramTypeInputs == {1, 2, 3, 5, 6, 26, 28}
MetaKeys == {"owner", "app"}
MetaValues == {"a", "b"}
MetaMaps == UNION {[ks -> MetaValues] : ks \in SUBSET MetaKeys}

MetadataInputs == {Got(m) : m \in MetaMaps} \cup {NotGot(<<>>)}

Programs ==
    {[variant |-> v, kernel_program_type |-> k, metadata |-> md] :
        v \in ProgramVariants,
        k \in {Got(t) : t \in ProgramTypeInputs} \cup {NotGot(0)},
        md \in MetadataInputs}

ListFilters ==
    {[program_type |-> t, metadata_selector |-> sel,
      bpfman_programs_only |-> only] :
        t \in {None} \cup {Some(n) : n \in ProgramTypeInputs},
        sel \in MetaMaps, only \in BOOLEAN}

\* Program::kind taken from the type the kernel reports, for every variant.
kind_of_kernel(program) ==
    LET t == ProgramType_try_from_u32(program.kernel_program_type.val)
    IN  IF program.kernel_program_type.ok /\ t.tag = "Ok" THEN t
        ELSE Ok("Unspec")

\* Program::kind.  For the unsupported variant both unwraps can panic.
kind(program) ==
    CASE program.variant = "Xdp" -> Ok("Xdp")
      [] program.variant = "Tc" -> Ok("Tc")
      [] program.variant = "Tracepoint" -> Ok("Tracepoint")
      [] program.variant = "Kprobe" -> Ok("Probe")
      [] program.variant = "Uprobe" -> Ok("Probe")
      [] program.variant = "Fentry" -> Ok("Tracing")
      [] program.variant = "Fexit" -> Ok("Tracing")
      [] program.variant = "Unsupported" ->
            IF ~program.kernel_program_type.ok THEN Panic("unwrap")
            ELSE LET t == ProgramType_try_from_u32(
                              program.kernel_program_type.val)
                 IN  IF t.tag = "Ok" THEN t ELSE Panic("unwrap")

\* The loop over the selector of a daemon-owned program: a pair that is
\* missing, differs, or cannot be read returns false.
SelectorHolds(self, program) ==
    \A key \in DOMAIN self.metadata_selector :
        /\ program.metadata.ok
        /\ key \in DOMAIN program.metadata.val
        /\ self.metadata_selector[key] = program.metadata.val[key]

\* matches without the selector test of the unsupported variant.
matches_unsupported_selected(self, program) ==
    IF program.variant = "Unsupported"
    THEN /\ ~self.bpfman_programs_only
         /\ self.program_type.some =>
               /\ program.kernel_program_type.ok
               /\ program.kernel_program_type.val = self.program_type.val
    ELSE /\ self.program_type.some =>
               ProgramType_into_u32(kind(program).val) = self.program_type.val
         /\ SelectorHolds(self, program)

\* matches with a selector of which one pair is enough.
matches_any_pair(self, program) ==
    IF program.variant = "Unsupported"
    THEN /\ ~self.bpfman_programs_only
         /\ self.program_type.some =>
               /\ program.kernel_program_type.ok
               /\ program.kernel_program_type.val = self.program_type.val
         /\ DOMAIN self.metadata_selector = {}
    ELSE /\ self.program_type.some =>
               ProgramType_into_u32(kind(program).val) = self.program_type.val
         /\ \/ DOMAIN self.metadata_selector = {}
            \/ \E key \in DOMAIN self.metadata_selector :
                  /\ program.metadata.ok
                  /\ key \in DOMAIN program.metadata.val
                  /\ self.metadata_selector[key] = program.metadata.val[key]

\* ListFilter::matches: every early return is a conjunct that fails.
matches(self, program) ==
    IF program.variant = "Unsupported"
    THEN /\ ~self.bpfman_programs_only
         /\ self.program_type.some =>
               /\ program.kernel_program_type.ok
               /\ program.kernel_program_type.val = self.program_type.val
         /\ DOMAIN self.metadata_selector = {}
    ELSE /\ self.program_type.some =>
               ProgramType_into_u32(kind(program).val) = self.program_type.val
         /\ SelectorHolds(self, program)

CallMatches(filter, program) ==
    /\ call.fn = "none"
    /\ Called("ListFilter::matches", "filter_program",
              [filter |-> filter, program |-> program],
              "bool", Ok(matches(filter, program)))

\* The inputs of a call, drawn only when no call is in progress.
(***************************************************************************)
(* Program::dispatcher_id on the trees of programs of every variant, with  *)
(* and without an if_index and a direction.                                *)
(***************************************************************************)
TreeKinds ==
    {"xdp", "tc", "tracepoint", "kprobe", "uprobe", "fentry", "fexit",
     "unsupported"}
\* A tree, and the tree with one of the values under the key.
WithKey(tree, k, vs) == {tree} \cup {sled_insert(tree, k, v) : v \in vs}

DispatcherTrees ==
    UNION {UNION {WithKey(t, "direction", DirectionNames) :
                    t \in WithKey(sled_insert(EmptyTree, "kind", k),
                                  "if_index", IfIndexes)} :
             k \in TreeKinds}

\* The Result of dispatcher_id.
DispatcherIdResult(d) ==
    CASE d = DispatcherIdPanic -> Panic("if_index should be known at this point")
      [] d = DispatcherIdError -> Err("DatabaseError", "direction")
      [] OTHER -> Ok(d)

CallDispatcherId(tree) ==
    /\ call.fn = "none"
    /\ Called("Program::dispatcher_id", "tree", tree,
              "dispatcher_id", DispatcherIdResult(dispatcher_id(tree)))

(***************************************************************************)
(* ProgramData::set_program_bytes on the tree of a program.  What the file *)
(* system and the image manager return are inputs of the call.             *)
(***************************************************************************)
NoImage ==
    [image_url |-> "", image_pull_policy |-> "Always", username |-> "none",
     password |-> "none"]
File(l) == [variant |-> "File", path |-> l, image |-> NoImage]
Image(l) == [variant |-> "Image", path |-> "", image |-> l]

\* ProgramData::set_location, with no insert failing.
set_location(tree, loc) ==
    IF loc.variant = "File"
    THEN sled_insert(tree, "location_filename", loc.path)
    ELSE LET t1 == sled_insert(tree, "location_image_url",
                               loc.image.image_url)
             t2 == sled_insert(t1, "location_image_pull_policy",
                               ImagePullPolicy_fmt(
                                   loc.image.image_pull_policy))
             t3 == IF loc.image.username # "none"
                   THEN sled_insert(t2, "location_username",
                                    loc.image.username)
                   ELSE t2
         IN  IF loc.image.password # "none"
             THEN sled_insert(t3, "location_password", loc.image.password)
             ELSE t3

\* ProgramData::get_location: a file if the tree holds a file name, an
\* image otherwise; a pull policy that does not parse fails the unwrap.
get_location(tree) ==
    IF "location_filename" \in DOMAIN tree
    THEN [tag |-> "Ok", loc |-> File(tree["location_filename"])]
    ELSE IF {"location_image_url", "location_image_pull_policy"}
                \subseteq DOMAIN tree
    THEN LET policy == ImagePullPolicy_try_from_str(
                           tree["location_image_pull_policy"])
         IN  IF policy.tag = "Ok"
             THEN [tag |-> "Ok",
                   loc |-> Image(
                       [image_url |-> tree["location_image_url"],
                        image_pull_policy |-> policy.val,
                        username |->
                            IF "location_username" \in DOMAIN tree
                            THEN tree["location_username"] ELSE "none",
                        password |->
                            IF "location_password" \in DOMAIN tree
                            THEN tree["location_password"] ELSE "none"])]
             ELSE [tag |-> "panic", loc |-> File("")]
    ELSE [tag |-> "Err", loc |-> File("")]

\* Location::get_program_bytes: the bytes of a file come with no symbols,
\* those of an image with the names of its functions.
get_program_bytes(loc, read, image) ==
    IF loc.variant = "File"
    THEN IF read.ok THEN Got([bytes |-> read.val, symbols |-> <<>>])
         ELSE NotGot([bytes |-> "", symbols |-> <<>>])
    ELSE image

Contains(s, x) == \E i \in 1..Len(s) : s[i] = x

NoError ==
    [kind |-> "none", bytecode_image |-> "", expected_prog_name |-> "",
     program_names |-> <<>>]
Failure(what) == [NoError EXCEPT !.kind = what]
Outcome(tag, tree, error) == [tag |-> tag, tree |-> tree, error |-> error]

\* set_program_bytes that stores the bytes before it looks for the name.
set_program_bytes_stored_first(tree, read, image, failAt) ==
    LET l == get_location(tree)
        b == get_program_bytes(l.loc, read, image)
    IN  IF l.tag = "panic" THEN Outcome("panic", tree, Failure("unwrap"))
        ELSE IF l.tag = "Err"
        THEN Outcome("Err", tree, Failure("DatabaseError"))
        ELSE IF ~b.ok THEN Outcome("Err", tree, Failure("BytecodeError"))
        ELSE IF l.loc.variant = "Image" /\ "name" \notin DOMAIN tree
        THEN Outcome("Err", tree, Failure("DatabaseError"))
        ELSE IF l.loc.variant = "Image"
                   /\ ~Contains(b.val.symbols, tree["name"])
        THEN Outcome("Err",
                     sled_insert(tree, "program_bytes", b.val.bytes),
                     [kind |-> "ProgramNotFoundInBytecode",
                      bytecode_image |-> l.loc.image.image_url,
                      expected_prog_name |-> tree["name"],
                      program_names |-> b.val.symbols])
        ELSE IF l.loc.variant = "Image" /\ failAt = 1
        THEN Outcome("Err", tree, Failure("DatabaseError"))
        ELSE LET named == IF l.loc.variant = "Image"
                          THEN sled_insert(tree, "name", tree["name"])
                          ELSE tree
             IN  IF failAt = 2
                 THEN Outcome("Err", named, Failure("DatabaseError"))
                 ELSE Outcome("Ok",
                              sled_insert(named, "program_bytes",
                                          b.val.bytes),
                              NoError)

\* ProgramData::set_program_bytes.  failAt = 1 fails the insert of
\* set_name, failAt = 2 the insert of the bytes.
set_program_bytes(tree, read, image, failAt) ==
    LET l == get_location(tree)
        b == get_program_bytes(l.loc, read, image)
    IN  IF l.tag = "panic" THEN Outcome("panic", tree, Failure("unwrap"))
        ELSE IF l.tag = "Err"
        THEN Outcome("Err", tree, Failure("DatabaseError"))
        ELSE IF ~b.ok THEN Outcome("Err", tree, Failure("BytecodeError"))
        ELSE IF l.loc.variant = "Image" /\ "name" \notin DOMAIN tree
        THEN Outcome("Err", tree, Failure("DatabaseError"))
        ELSE IF l.loc.variant = "Image"
                   /\ ~Contains(b.val.symbols, tree["name"])
        THEN Outcome("Err", tree,
                     [kind |-> "ProgramNotFoundInBytecode",
                      bytecode_image |-> l.loc.image.image_url,
                      expected_prog_name |-> tree["name"],
                      program_names |-> b.val.symbols])
        ELSE IF l.loc.variant = "Image" /\ failAt = 1
        THEN Outcome("Err", tree, Failure("DatabaseError"))
        ELSE LET named == IF l.loc.variant = "Image"
                          THEN sled_insert(tree, "name", tree["name"])
                          ELSE tree
             IN  IF failAt = 2
                 THEN Outcome("Err", named, Failure("DatabaseError"))
                 ELSE Outcome("Ok",
                              sled_insert(named, "program_bytes",
                                          b.val.bytes),
                              NoError)

\* The names a program is declared with, the symbols an image may hold, and
\* the locations.
ProgramNames == {"classifier", "unknown_fn"}
SymbolLists == {<<>>, <<"classifier">>, <<"pass", "unknown_fn">>}
ImageUrl == "quay.io/bpfman/xdp_pass"
Locations ==
    {File("/run/xdp_pass.o"),
     Image(BytecodeImage_new(ImageUrl, 0, "none", "none").val),
     Image(BytecodeImage_new(ImageUrl, 1, "user", "secret").val)}

\* The trees set_program_bytes is called on: a name, if any, a location, if
\* any, and for one tree a pull policy that is none.
ProgramTrees ==
    LET named == {EmptyTree}
                 \cup {sled_insert(EmptyTree, "name", n) : n \in ProgramNames}
        located == named \cup {set_location(t, loc) :
                                  t \in named, loc \in Locations}
    IN  located
        \cup {sled_insert(t, "location_image_pull_policy", "bogus") :
                 t \in {u \in located : "location_image_url" \in DOMAIN u}}

ReadResults == {Got("file_bytes"), NotGot("")}
ImageResults ==
    {Got([bytes |-> "image_bytes", symbols |-> s]) : s \in SymbolLists}
    \cup {NotGot([bytes |-> "", symbols |-> <<>>])}

CallSetProgramBytes(tree, read, image, failAt) ==
    /\ call.fn = "none"
    /\ call' = [fn |-> "ProgramData::set_program_bytes",
                arg |-> Typed("program_bytes",
                              [tree |-> tree, read |-> read,
                               image |-> image, failAt |-> failAt])]
    /\ ret' = LET r == set_program_bytes(tree, read, image, failAt)
              IN  [tag |-> r.tag,
                   val |-> Typed("stored",
                                 [tree |-> r.tree, error |-> r.error])]
    /\ UNCHANGED <<serveVars, engVars>>

(***************************************************************************)
(* ProgramData::new, called while the store holds the trees of earlier     *)
(* programs.  failAt = k fails the k-th setter.                            *)
(***************************************************************************)
\* set_metadata, set_global_data: one insert for each pair, under the
\* prefixed key.
InsertPrefixed(tree, prefix, data) ==
    LET ks == {prefix \o k : k \in DOMAIN data}
    IN  [x \in (DOMAIN tree) \cup ks |->
            IF x \in ks
            THEN data[CHOOSE k \in DOMAIN data : prefix \o k = x]
            ELSE tree[x]]

\* ProgramData::new: the setters in order, each returning its error; the
\* store is not read.
ProgramData_new(db, id_rand, location, name, metadata, global_data, map_owner_id, failAt) ==
    LET t1 == sled_insert(EmptyTree, "id", id_rand)
        t2 == set_location(t1, location)
        t3 == sled_insert(t2, "name", name)
        t4 == InsertPrefixed(t3, "metadata_", metadata)
        t5 == InsertPrefixed(t4, "global_data_", global_data)
        t6 == IF map_owner_id.some
              THEN sled_insert(t5, "map_owner_id", map_owner_id.val)
              ELSE t5
    IN  IF failAt # 0 /\ (failAt < 6 \/ map_owner_id.some)
        THEN Outcome("Err", EmptyTree, Failure("DatabaseError"))
        ELSE Outcome("Ok", t6, NoError)

\* The stores of the calls: empty, one program, and a program with one that
\* shares its maps.
OwnedStores ==
    LET new(id, owner) ==
            ProgramData_new(EmptyDb, id, File("/run/xdp_pass.o"), "pass",
                            EmptyTree, EmptyTree, owner, 0).tree
        one == WithTree(EmptyDb, 1, new(1, None))
    IN  {EmptyDb, one, WithTree(one, 2, new(2, Some(1)))}

CallProgramDataNew(db, id_rand, metadata, map_owner_id, failAt) ==
    /\ call.fn = "none"
    /\ call' = [fn |-> "ProgramData::new",
                arg |-> Typed("new",
                              [db |-> db, id_rand |-> id_rand,
                               metadata |-> metadata,
                               map_owner_id |-> map_owner_id,
                               failAt |-> failAt])]
    /\ ret' = LET r == ProgramData_new(db, id_rand, File("/run/xdp_pass.o"),
                                       "pass", metadata, EmptyTree,
                                       map_owner_id, failAt)
              IN  [tag |-> r.tag,
                   val |-> Typed("program_data",
                                 [tree |-> r.tree, error |-> r.error])]
    /\ UNCHANGED <<serveVars, engVars>>

(***************************************************************************)
(* ProgramData::set_kernel_info.  A program's kernel information is a      *)
(* record of optional fields; what the kernel reports of a loaded program  *)
(* (AyaProgInfo) is the input of the call.                                 *)
(***************************************************************************)
Absent(d) == [some |-> FALSE, val |-> d]

NoKernelInfo ==
    [id |-> 0, kernel_name |-> Absent(""), kernel_program_type |-> None,
     kernel_loaded_at |-> Absent(""), kernel_tag |-> Absent(""),
     kernel_gpl_compatible |-> Absent(FALSE), kernel_btf_id |-> None,
     kernel_bytes_xlated |-> None, kernel_jited |-> Absent(FALSE),
     kernel_bytes_jited |-> None, kernel_verified_insns |-> None,
     kernel_map_ids |-> Absent(<<>>), kernel_bytes_memlock |-> None]

\* format!("{:x}", n).
HexDigits ==
    <<"0", "1", "2", "3", "4", "5", "6", "7", "8", "9", "a", "b", "c", "d",
      "e", "f">>

RECURSIVE LowerHex(_)
LowerHex(n) ==
    IF n < 16 THEN HexDigits[n + 1]
    ELSE LowerHex(n \div 16) \o HexDigits[(n % 16) + 1]

\* A set_kernel_info that keeps the sizes and the instruction count a
\* program already has.
set_kernel_info_once(self, prog) ==
    IF ~prog.name_as_str.ok
    THEN [tag |-> "panic", self |-> [self EXCEPT !.id = prog.id]]
    ELSE [tag |-> "Ok",
          self |->
            [self EXCEPT
                !.id = prog.id,
                !.kernel_name = Some(prog.name_as_str.val),
                !.kernel_program_type = Some(prog.program_type),
                !.kernel_loaded_at = Some(prog.loaded_at),
                !.kernel_tag = Some(LowerHex(prog.tag)),
                !.kernel_gpl_compatible = Some(prog.gpl_compatible),
                !.kernel_btf_id = prog.btf_id,
                !.kernel_bytes_xlated =
                    IF @.some THEN @ ELSE Some(prog.size_translated),
                !.kernel_jited = Some(prog.size_jitted # 0),
                !.kernel_bytes_jited =
                    IF @.some THEN @ ELSE Some(prog.size_jitted),
                !.kernel_verified_insns =
                    IF @.some THEN @
                    ELSE Some(prog.verified_instruction_count),
                !.kernel_map_ids =
                    IF prog.map_ids.ok THEN Some(prog.map_ids.val) ELSE @,
                !.kernel_bytes_memlock =
                    IF prog.memory_locked.ok
                    THEN Some(prog.memory_locked.val) ELSE @]]

\* ProgramData::set_kernel_info: every field is assigned from prog; the
\* map ids and the locked memory only when the kernel gives them.  A name
\* that is not unicode fails the expect, after the id was assigned.
set_kernel_info(self, prog) ==
    IF ~prog.name_as_str.ok
    THEN [tag |-> "panic", self |-> [self EXCEPT !.id = prog.id]]
    ELSE [tag |-> "Ok",
          self |->
            [self EXCEPT
                !.id = prog.id,
                !.kernel_name = Some(prog.name_as_str.val),
                !.kernel_program_type = Some(prog.program_type),
                !.kernel_loaded_at = Some(prog.loaded_at),
                !.kernel_tag = Some(LowerHex(prog.tag)),
                !.kernel_gpl_compatible = Some(prog.gpl_compatible),
                !.kernel_btf_id = prog.btf_id,
                !.kernel_bytes_xlated = Some(prog.size_translated),
                !.kernel_jited = Some(prog.size_jitted # 0),
                !.kernel_bytes_jited = Some(prog.size_jitted),
                !.kernel_verified_insns =
                    Some(prog.verified_instruction_count),
                !.kernel_map_ids =
                    IF prog.map_ids.ok THEN Some(prog.map_ids.val) ELSE @,
                !.kernel_bytes_memlock =
                    IF prog.memory_locked.ok
                    THEN Some(prog.memory_locked.val) ELSE @]]

\* What the kernel may report of a program: the sizes and the count vary,
\* as do the calls that can fail.
ProgInfos ==
    {[id |-> 7, name_as_str |-> name, program_type |-> 28,
      loaded_at |-> "2026-01-01T00:00:00Z", tag |-> 2748,
      gpl_compatible |-> TRUE, btf_id |-> Some(3),
      size_translated |-> x, size_jitted |-> j,
      verified_instruction_count |-> v, map_ids |-> ids,
      memory_locked |-> m] :
        name \in {Got("pass"), NotGot("")}, x \in {64, 72},
        j \in {0, 40, 48}, v \in {8, 9},
        ids \in {Got(<<5>>), NotGot(<<>>)},
        m \in {Got(4096), NotGot(0)}}

\* The program before the call: just created, or with the kernel
\* information of an earlier call.
KernelInfos ==
    {NoKernelInfo}
    \cup {set_kernel_info(NoKernelInfo, prog).self :
             prog \in {p \in ProgInfos : p.name_as_str.ok}}

CallSetKernelInfo(self, prog) ==
    /\ call.fn = "none"
    /\ call' = [fn |-> "ProgramData::set_kernel_info",
                arg |-> Typed("kernel_info", [self |-> self, prog |-> prog])]
    /\ ret' = LET r == set_kernel_info(self, prog)
              IN  [tag |-> r.tag, val |-> Typed("kernel_info", r.self)]
    /\ UNCHANGED <<serveVars, engVars>>

(***************************************************************************)
(* MapType and its conversion from the number of a map type.               *)
(***************************************************************************)
\* enum MapType, in the order of its declaration: the variant at position
\* n + 1 is the one the kernel numbers n.
MapType ==
    <<"Unspec", "Hash", "Array", "ProgArray", "PerfEventArray", "PerCpuHash",
      "PerCpuArray", "StackTrace", "CgroupArray", "LruHash", "LruPerCpuHash",
      "LpmTrie", "ArrayOfMaps", "HashOfMaps", "Devmap", "Sockmap", "Cpumap",
      "Xskmap", "Sockhash", "CgroupStorage", "ReuseportSockarray",
      "PerCpuCgroupStorage", "Queue", "Stack", "SkStorage", "DevmapHash",
      "StructOps", "Ringbuf", "InodeStorage", "TaskStorage", "BloomFilter",
      "UserRingbuf", "CgrpStorage", "Arena">>

\* format!("{v}") of an unsigned number.
RECURSIVE Decimal(_)
Decimal(n) ==
    IF n < 10 THEN HexDigits[n + 1]
    ELSE Decimal(n \div 10) \o HexDigits[(n % 10) + 1]

\* The arms of impl From<u32> for MapType.
MapTypeArms ==
    <<<<0, "Unspec">>, <<1, "Hash">>, <<2, "Array">>, <<3, "ProgArray">>,
      <<4, "PerfEventArray">>, <<5, "PerCpuHash">>, <<6, "PerCpuArray">>,
      <<7, "StackTrace">>, <<8, "CgroupArray">>, <<9, "LruHash">>,
      <<10, "LruPerCpuHash">>, <<11, "LpmTrie">>, <<12, "ArrayOfMaps">>,
      <<13, "HashOfMaps">>, <<14, "Devmap">>, <<15, "Sockmap">>,
      <<16, "Cpumap">>, <<17, "Xskmap">>, <<18, "Sockhash">>,
      <<20, "ReuseportSockarray">>, <<22, "Queue">>, <<23, "Stack">>,
      <<24, "SkStorage">>, <<25, "DevmapHash">>, <<26, "StructOps">>,
      <<27, "Ringbuf">>, <<28, "InodeStorage">>, <<29, "TaskStorage">>,
      <<30, "BloomFilter">>, <<31, "UserRingbuf">>, <<32, "CgrpStorage">>,
      <<33, "Arena">>>>

\* impl From<u32> for MapType: the first arm of the value, and a panic when
\* there is none.
MapType_from(value) ==
    LET hits == {i \in DOMAIN MapTypeArms : MapTypeArms[i][1] = value}
    IN  IF hits = {}
        THEN [tag |-> "panic", val |-> "Unknown map type " \o Decimal(value)]
        ELSE Ok(MapTypeArms[CHOOSE i \in hits : \A j \in hits : i <= j][2])

\* The numbers a map type is converted from: those of the kernel and some
\* above them.
MapTypeInputs == 0..(Len(MapType) + 2)

CallMapTypeFrom(value) ==
    /\ call.fn = "none"
    /\ Called("MapType::from", "u32", value, "MapType", MapType_from(value))

(***************************************************************************)
(* Lists kept in a program's tree: one key per element, the prefix of the  *)
(* list followed by the element's index in decimal.                        *)
(***************************************************************************)
MaxIds == 12   \* longest list given to set_maps_used_by

\* format!("{PREFIX}{i}").
IndexKey(prefix, i) == prefix \o Decimal(i)

\* The digits of format!("{i}"), first to last.
RECURSIVE DecimalDigits(_)
DecimalDigits(n) ==
    IF n < 10 THEN <<n>> ELSE Append(DecimalDigits(n \div 10), n % 10)

\* The order of two byte strings: at the first byte that differs, or the
\* shorter first when one starts the other.
RECURSIVE BytesBefore(_, _)
BytesBefore(a, b) ==
    IF a = <<>> THEN b # <<>>
    ELSE IF b = <<>> THEN FALSE
    ELSE IF Head(a) # Head(b) THEN Head(a) < Head(b)
    ELSE BytesBefore(Tail(a), Tail(b))

RECURSIVE InKeyOrder(_)
InKeyOrder(idx) ==
    IF idx = {} THEN <<>>
    ELSE LET first == CHOOSE i \in idx : \A j \in idx \ {i} :
                          BytesBefore(DecimalDigits(i), DecimalDigits(j))
         IN  <<first>> \o InKeyOrder(idx \ {first})

\* Tree::scan_prefix: the keys of the tree that start with the prefix, in
\* the order of their bytes.
scan_prefix(tree, prefix) ==
    LET idx == {i \in 0..MaxIds : IndexKey(prefix, i) \in DOMAIN tree}
        ord == InKeyOrder(idx)
    IN  [n \in DOMAIN ord |-> IndexKey(prefix, ord[n])]

\* u32::to_ne_bytes, on a machine that stores the low byte first.
u32_to_ne_bytes(v) ==
    <<v % 256, (v \div 256) % 256, (v \div 65536) % 256, v \div 16777216>>

\* bytes_to_u32: the number those four bytes are.
bytes_to_u32(b) == b[1] + 256 * b[2] + 65536 * b[3] + 16777216 * b[4]

\* ProgramData::clear_maps_used_by.
clear_maps_used_by(tree) ==
    LET ks == scan_prefix(tree, "maps_used_by_")
    IN  [x \in (DOMAIN tree) \ {ks[n] : n \in DOMAIN ks} |-> tree[x]]

RECURSIVE InsertIndexed(_, _, _, _, _)
InsertIndexed(tree, prefix, bytes, i, failAt) ==
    IF i > Len(bytes) THEN Outcome("Ok", tree, NoError)
    ELSE IF failAt = i THEN Outcome("Err", tree, Failure("DatabaseError"))
    ELSE InsertIndexed(sled_insert(tree, IndexKey(prefix, i - 1), bytes[i]),
                       prefix, bytes, i + 1, failAt)

\* ProgramData::set_maps_used_by: the stored list is cleared, then every id
\* is inserted under its index; sled failing the failAt-th insert ends the
\* call there.
set_maps_used_by(tree, ids, failAt) ==
    InsertIndexed(clear_maps_used_by(tree), "maps_used_by_",
                  [i \in DOMAIN ids |-> u32_to_ne_bytes(ids[i])], 1, failAt)

\* ProgramData::get_maps_used_by.
get_maps_used_by(tree) ==
    LET ks == scan_prefix(tree, "maps_used_by_")
    IN  [n \in DOMAIN ks |-> bytes_to_u32(tree[ks[n]])]

\* Lists of ids of every length: rising, falling and of one id.
IdLists ==
    UNION {{[i \in 1..n |-> i], [i \in 1..n |-> 300 - i], [i \in 1..n |-> 7]} :
              n \in 0..MaxIds}

\* A program's tree before the call: with no list, or with one stored.
TreesWithIds ==
    LET bare == sled_insert(EmptyTree, "id", 7)
    IN  {set_maps_used_by(bare, ids, 0).tree : ids \in IdLists}

\* set_maps_used_by, then get_maps_used_by, then set_maps_used_by of the
\* same list once more.
CallSetMapsUsedBy(tree, ids, failAt) ==
    /\ call.fn = "none"
    /\ call' = [fn |-> "ProgramData::set_maps_used_by",
                arg |-> Typed("maps_used_by", [tree |-> tree, ids |-> ids])]
    /\ ret' = LET r == set_maps_used_by(tree, ids, failAt)
              IN  [tag |-> r.tag,
                   val |-> Typed("maps_used_by",
                       [tree |-> r.tree, error |-> r.error,
                        get |-> get_maps_used_by(r.tree),
                        again |-> set_maps_used_by(r.tree, ids, 0).tree])]
    /\ UNCHANGED <<serveVars, engVars>>

(***************************************************************************)
(* XdpProgram and TcProgram: set_proceed_on and get_proceed_on.            *)
(***************************************************************************)
\* i32::to_ne_bytes, on a machine that stores the low byte first: a
\* negative number is kept in two's complement.
i32_to_ne_bytes(v) ==
    IF v >= 0 THEN u32_to_ne_bytes(v)
    ELSE LET low == u32_to_ne_bytes((v + 2147483647) + 1)
         IN  <<low[1], low[2], low[3], low[4] + 128>>

\* bytes_to_i32: the number those four bytes are.
bytes_to_i32(b) ==
    IF b[4] < 128 THEN bytes_to_u32(b)
    ELSE (bytes_to_u32(<<b[1], b[2], b[3], b[4] - 128>>) - 2147483647) - 1

\* XdpProceedOn::as_action_vec and TcProceedOn::as_action_vec.
XdpProceedOn_as_action_vec(po) ==
    [i \in DOMAIN po |-> XdpProceedOnEntry_as_i32(po[i])]
TcProceedOn_as_action_vec(po) ==
    [i \in DOMAIN po |-> TcProceedOnEntry_as_i32(po[i])]

\* XdpProgram::set_proceed_on: every action is inserted under its index;
\* what the tree held under greater indexes stays.
XdpProgram_set_proceed_on(tree, proceed_on, failAt) ==
    LET vec == XdpProceedOn_as_action_vec(proceed_on)
    IN  InsertIndexed(tree, "xdp_proceed_on_",
                      [i \in DOMAIN vec |-> i32_to_ne_bytes(vec[i])], 1,
                      failAt)

\* XdpProgram::get_proceed_on: the entries of the stored values in the
\* order of their keys, collected as from_iter collects them; a value
\* that is no entry gives the error.
XdpProgram_get_proceed_on(tree) ==
    LET ks == scan_prefix(tree, "xdp_proceed_on_")
        rs == TryEach([n \in DOMAIN ks |->
                  XdpProceedOnEntry_try_from_i32(bytes_to_i32(tree[ks[n]]))])
    IN  IF rs.tag = "Ok"
        THEN [tag |-> "Ok", entries |-> XdpProceedOn_from_iter(rs.val)]
        ELSE [tag |-> "Err", entries |-> <<>>]

\* TcProgram::set_proceed_on.
TcProgram_set_proceed_on(tree, proceed_on, failAt) ==
    LET vec == TcProceedOn_as_action_vec(proceed_on)
    IN  InsertIndexed(tree, "tc_proceed_on_",
                      [i \in DOMAIN vec |-> i32_to_ne_bytes(vec[i])], 1,
                      failAt)

\* TcProgram::get_proceed_on: as for XDP, but a value that is no entry
\* fails the unwrap.
TcProgram_get_proceed_on(tree) ==
    LET ks == scan_prefix(tree, "tc_proceed_on_")
        rs == TryEach([n \in DOMAIN ks |->
                  TcProceedOnEntry_try_from_i32(bytes_to_i32(tree[ks[n]]))])
    IN  IF rs.tag = "Ok"
        THEN [tag |-> "Ok", entries |-> TcProceedOn_from_iter(rs.val)]
        ELSE [tag |-> "panic", entries |-> <<>>]

\* The lists given to set_proceed_on: the short ones, and the first n
\* entries of every length, up to all of them.
AllXdpProceedOn ==
    <<"Aborted", "Drop", "Pass", "Tx", "Redirect", "DispatcherReturn">>
AllTcProceedOn ==
    <<"Unspec", "Ok", "Reclassify", "Shot", "Pipe", "Stolen", "Queued",
      "Repeat", "Redirect", "Trap", "DispatcherReturn">>
XdpProceedOnLists ==
    SeqsUpTo(XdpProceedOnEntries, 2)
    \cup {SubSeq(AllXdpProceedOn, 1, n) : n \in 1..Len(AllXdpProceedOn)}
TcProceedOnLists ==
    SeqsUpTo(TcProceedOnEntries, 2)
    \cup {SubSeq(AllTcProceedOn, 1, n) : n \in 1..Len(AllTcProceedOn)}

\* A program's tree before the call: with no proceed_on, or with one set.
XdpTrees ==
    LET bare == sled_insert(sled_insert(EmptyTree, "id", 7), "kind", "xdp")
    IN  {bare}
        \cup {XdpProgram_set_proceed_on(bare, po, 0).tree :
                 po \in {<<"Pass">>, <<"Drop", "Pass">>, AllXdpProceedOn}}
TcTrees ==
    LET bare == sled_insert(sled_insert(EmptyTree, "id", 7), "kind", "tc")
    IN  {bare}
        \cup {TcProgram_set_proceed_on(bare, po, 0).tree :
                 po \in {<<"Pipe">>, <<"Shot", "Pipe">>, AllTcProceedOn}}

\* set_proceed_on, then get_proceed_on.
CallXdpSetProceedOn(tree, proceed_on, failAt) ==
    /\ call.fn = "none"
    /\ call' = [fn |-> "XdpProgram::set_proceed_on",
                arg |-> Typed("proceed_on",
                              [tree |-> tree, proceed_on |-> proceed_on])]
    /\ ret' = LET r == XdpProgram_set_proceed_on(tree, proceed_on, failAt)
              IN  [tag |-> r.tag,
                   val |-> Typed("proceed_on",
                       [tree |-> r.tree, error |-> r.error,
                        get |-> XdpProgram_get_proceed_on(r.tree)])]
    /\ UNCHANGED <<serveVars, engVars>>

CallTcSetProceedOn(tree, proceed_on, failAt) ==
    /\ call.fn = "none"
    /\ call' = [fn |-> "TcProgram::set_proceed_on",
                arg |-> Typed("proceed_on",
                              [tree |-> tree, proceed_on |-> proceed_on])]
    /\ ret' = LET r == TcProgram_set_proceed_on(tree, proceed_on, failAt)
              IN  [tag |-> r.tag,
                   val |-> Typed("proceed_on",
                       [tree |-> r.tree, error |-> r.error,
                        get |-> TcProgram_get_proceed_on(r.tree)])]
    /\ UNCHANGED <<serveVars, engVars>>

(***************************************************************************)
(* The constructors of the program variants and Program::new_from_db.      *)
(* Each constructor inserts its fields one after the other and the kind    *)
(* where the code sets it; sled failing the failAt-th insert ends it.      *)
(***************************************************************************)
RECURSIVE InsertAll(_, _, _, _)
InsertAll(tree, pairs, i, failAt) ==
    IF i > Len(pairs) THEN Outcome("Ok", tree, NoError)
    ELSE IF failAt = i THEN Outcome("Err", tree, Failure("DatabaseError"))
    ELSE InsertAll(sled_insert(tree, pairs[i][1], pairs[i][2]), pairs, i + 1,
                   failAt)

\* The pairs set_proceed_on inserts.
IndexedPairs(prefix, vec) ==
    [i \in DOMAIN vec |-> <<IndexKey(prefix, i - 1), i32_to_ne_bytes(vec[i])>>]

\* An optional field: inserted when it is given.
Given(k, opt) == IF opt.some THEN <<<<k, opt.val>>>> ELSE <<>>

XdpProgram_new(data, prio, iface, proceed_on, failAt) ==
    InsertAll(data,
        <<<<"priority", i32_to_ne_bytes(prio)>>, <<"iface", iface>>>>
        \o IndexedPairs("xdp_proceed_on_",
                        XdpProceedOn_as_action_vec(proceed_on))
        \o <<<<"kind", "xdp">>>>, 1, failAt)

TcProgram_new(data, prio, iface, proceed_on, direction, failAt) ==
    InsertAll(data,
        <<<<"priority", i32_to_ne_bytes(prio)>>, <<"iface", iface>>>>
        \o IndexedPairs("tc_proceed_on_",
                        TcProceedOn_as_action_vec(proceed_on))
        \o <<<<"direction", direction>>, <<"kind", "tc">>>>, 1, failAt)

TracepointProgram_new(data, tracepoint, failAt) ==
    InsertAll(data,
        <<<<"tracepoint_name", tracepoint>>, <<"kind", "tracepoint">>>>, 1,
        failAt)

KprobeProgram_new(data, fn_name, offset, retprobe, container_pid, failAt) ==
    InsertAll(data,
        <<<<"kprobe_fn_name", fn_name>>, <<"kprobe_offset", offset>>,
          <<"kprobe_retprobe", retprobe>>, <<"kind", "probe">>>>
        \o Given("kprobe_container_pid", container_pid), 1, failAt)

UprobeProgram_new(data, fn_name, offset, target, retprobe, pid, container_pid, failAt) ==
    InsertAll(data,
        Given("uprobe_fn_name", fn_name)
        \o <<<<"uprobe_offset", offset>>, <<"uprobe_retprobe", retprobe>>>>
        \o Given("uprobe_container_pid", container_pid)
        \o Given("uprobe_pid", pid)
        \o <<<<"uprobe_target", target>>, <<"kind", "probe">>>>, 1, failAt)

FentryProgram_new(data, fn_name, failAt) ==
    InsertAll(data,
        <<<<"fentry_fn_name", fn_name>>, <<"kind", "tracing">>>>, 1, failAt)

FexitProgram_new(data, fn_name, failAt) ==
    InsertAll(data,
        <<<<"fexit_fn_name", fn_name>>, <<"kind", "tracing">>>>, 1, failAt)

\* The trees new_from_db is given, each with the variant whose constructor
\* returned it, or "none": the constructors' results for some arguments,
\* failures at every insert included, a tree whose kind the daemon does
\* not manage, and one with no id.
ProgramDataWithId == sled_insert(EmptyTree, "id", 7)

Built(variant, r) ==
    [built |-> IF r.tag = "Ok" THEN variant ELSE "none", tree |-> r.tree]

InsertFailures == 0..8
OptionalPids == {None, Some(12)}
OptionalNames == {Absent(""), Some("malloc")}

StoredPrograms ==
    {Built("Xdp", XdpProgram_new(ProgramDataWithId, p, "eth0", po, f)) :
        p \in {-1, 50}, po \in {<<"Pass">>, <<"Pass", "DispatcherReturn">>},
        f \in InsertFailures}
    \cup {Built("Tc", TcProgram_new(ProgramDataWithId, 50, "eth0", po, d, f)) :
        po \in {<<"Pipe">>, <<"Unspec", "Ok">>}, d \in DirectionNames,
        f \in InsertFailures}
    \cup {Built("Tracepoint",
                TracepointProgram_new(ProgramDataWithId, "sched/sched_switch",
                                      f)) : f \in InsertFailures}
    \cup {Built("Kprobe",
                KprobeProgram_new(ProgramDataWithId, "try_to_wake_up", o, r,
                                  c, f)) :
        o \in {0, 4}, r \in BOOLEAN, c \in OptionalPids, f \in InsertFailures}
    \cup {Built("Uprobe",
                UprobeProgram_new(ProgramDataWithId, n, o, "libc", r, p, c,
                                  f)) :
        n \in OptionalNames, o \in {0, 4}, r \in BOOLEAN, p \in OptionalPids,
        c \in OptionalPids, f \in InsertFailures}
    \cup {Built("Fentry", FentryProgram_new(ProgramDataWithId, "do_unlinkat",
                                            f)) : f \in InsertFailures}
    \cup {Built("Fexit", FexitProgram_new(ProgramDataWithId, "do_unlinkat",
                                          f)) : f \in InsertFailures}
    \cup {[built |-> "none",
           tree |-> sled_insert(ProgramDataWithId, "kind", k)] :
             k \in {"socket_filter", "unspec"}}
    \cup {[built |-> "none", tree |-> sled_insert(EmptyTree, "kind", "xdp")]}

CallNewFromDb(id, stored) ==
    /\ call.fn = "none"
    /\ call' = [fn |-> "Program::new_from_db",
                arg |-> Typed("stored", [id |-> id, built |-> stored.built,
                                         tree |-> stored.tree])]
    /\ ret' = LET r == new_from_db(id, stored.tree)
              IN  [tag |-> r.tag,
                   val |-> Typed("program", [variant |-> r.variant,
                                             error |-> r.error,
                                             tree |-> r.tree])]
    /\ UNCHANGED <<serveVars, engVars>>

(***************************************************************************)
(* ProgramData::swap_tree called on a store: the tree of the program       *)
(* being loaded has the name 101; the store may hold another program, 2,   *)
(* and a tree left under the new id, 3.                                    *)
(***************************************************************************)
TreeOfPairs(pairs) ==
    [k \in {pairs[i][1] : i \in DOMAIN pairs} |->
        pairs[CHOOSE i \in DOMAIN pairs : pairs[i][1] = k][2]]

LoadedTrees ==
    {TreeOfPairs(<<<<"id", 101>>, <<"kind", "xdp">>, <<"priority", 1>>,
                   <<"if_index", 1>>>>),
     TreeOfPairs(<<<<"id", 101>>, <<"kind", "tc">>, <<"priority", 2>>,
                   <<"if_index", 1>>, <<"direction", "ingress">>>>)}

LeftTrees ==
    {TreeOfPairs(<<<<"id", 3>>, <<"kind", "xdp">>, <<"priority", 1>>>>),
     TreeOfPairs(<<<<"id", 3>>, <<"kind", "tc">>, <<"priority", 1>>,
                   <<"if_index", 2>>, <<"direction", "egress">>,
                   <<"attached", TRUE>>, <<"current_position", 0>>>>)}

SwapStores ==
    LET other == TreeOfPairs(<<<<"id", 2>>, <<"kind", "tc">>,
                               <<"priority", 1>>, <<"if_index", 1>>,
                               <<"direction", "egress">>>>)
        with(t) == {WithTree(EmptyDb, 101, t),
                    WithTree(WithTree(EmptyDb, 101, t), 2, other)}
        fresh == UNION {with(t) : t \in LoadedTrees}
    IN  fresh \cup {WithTree(db, 3, left) : db \in fresh, left \in LeftTrees}

CallSwapTree(root, new_id, failAt) ==
    /\ call.fn = "none"
    /\ failAt <= Len(Entries(root[101])) + 1
    /\ call' = [fn |-> "ProgramData::swap_tree",
                arg |-> Typed("swap", [root |-> root, name |-> 101,
                                       new_id |-> new_id])]
    /\ ret' = LET r == swap_tree([root |-> root, temp |-> EmptyDb],
                                 Handle("root", 101), new_id, failAt)
              IN  [tag |-> IF r.ok THEN "Ok" ELSE "Err",
                   val |-> Typed("swap", [root |-> r.e.root, h |-> r.h])]
    /\ UNCHANGED <<serveVars, engVars>>

WhenAtRest(S) == IF call.fn = "none" THEN S ELSE {}

InitModels == EngineAtRest /\ ServeAtRest /\ ModelsAtRest

NextModels ==
    \/ \E po \in WhenAtRest(SeqsUpTo(XdpProceedOnEntries, MaxProceedOn)) :
          CallXdpMask(po)
    \/ \E po \in WhenAtRest(SeqsUpTo(TcProceedOnEntries, MaxProceedOn)) :
          CallTcMask(po)
    \/ \E iter \in WhenAtRest(SeqsUpTo(XdpProceedOnEntries, MaxProceedOn)) :
          CallXdpFromIter(iter)
    \/ \E values \in WhenAtRest(SeqsUpTo(ProceedOnStrings, MaxProceedOn)) :
          CallXdpFromStrings(values)
    \/ \E values \in WhenAtRest(SeqsUpTo(ProceedOnInts, MaxProceedOn)) :
          CallXdpFromInt32s(values)
    \/ \E iter \in WhenAtRest(SeqsUpTo(TcProceedOnEntries, MaxProceedOn)) :
          CallTcFromIter(iter)
    \/ \E values \in WhenAtRest(SeqsUpTo(ProceedOnStrings, MaxProceedOn)) :
          CallTcFromStrings(values)
    \/ \E values \in WhenAtRest(SeqsUpTo(ProceedOnInts, MaxProceedOn)) :
          CallTcFromInt32s(values)
    \/ \E x \in WhenAtRest(EnumValues) : CallDisplayParse(x[1], x[2])
    \/ \E x \in WhenAtRest(EnumValues) : CallIntoParse(x[1], x[2])
    \/ \E ty \in WhenAtRest(EnumTypes), s \in StringInputs :
          CallTryFromString(ty, s)
    \/ \E x \in WhenAtRest(EnumInts) : CallTryFromInt(x[1], x[2])
    \/ \E n \in WhenAtRest(IntInputs("ImagePullPolicy")) :
          CallBytecodeImageNew(n)
    \/ \E filter \in WhenAtRest(ListFilters), program \in Programs :
          CallMatches(filter, program)
    \/ \E tree \in WhenAtRest(DispatcherTrees) : CallDispatcherId(tree)
    \/ \E tree \in WhenAtRest(ProgramTrees), read \in ReadResults,
          image \in ImageResults, failAt \in 0..2 :
          CallSetProgramBytes(tree, read, image, failAt)
    \/ \E db \in WhenAtRest(OwnedStores), id_rand \in RandIds,
          metadata \in MetaMaps,
          map_owner_id \in {None} \cup {Some(o) : o \in 1..3},
          failAt \in 0..6 :
          CallProgramDataNew(db, id_rand, metadata, map_owner_id, failAt)
    \/ \E self \in WhenAtRest(KernelInfos), prog \in ProgInfos :
          CallSetKernelInfo(self, prog)
    \/ \E value \in WhenAtRest(MapTypeInputs) : CallMapTypeFrom(value)
    \/ \E tree \in WhenAtRest(TreesWithIds), ids \in IdLists,
          failAt \in 0..2 :
          CallSetMapsUsedBy(tree, ids, failAt)
    \/ \E tree \in WhenAtRest(XdpTrees), proceed_on \in XdpProceedOnLists,
          failAt \in 0..2 :
          CallXdpSetProceedOn(tree, proceed_on, failAt)
    \/ \E tree \in WhenAtRest(TcTrees), proceed_on \in TcProceedOnLists,
          failAt \in 0..2 :
          CallTcSetProceedOn(tree, proceed_on, failAt)
    \/ \E id \in WhenAtRest({7, 8}), stored \in StoredPrograms :
          CallNewFromDb(id, stored)
    \/ \E root \in WhenAtRest(SwapStores), failAt \in 0..6 :
          CallSwapTree(root, 3, failAt)
    \/ TakeResult

SpecModels == InitModels /\ [][NextModels]_vars

(***************************************************************************)
(* Claims about the engine                                                 *)
(***************************************************************************)

\* The members of the chain the daemon serves for a key.
ChainSet(key) ==
    {eng.disp[key].members[i] : i \in 1..Len(eng.disp[key].members)}

\* The kernel serves the chain of the table: the one dispatcher of the key
\* is attached at the hook and was built for that chain.
KernelServes(key) ==
    IF eng.disp[key].members = <<>>
    THEN eng.hook[key] = 0 /\ ~\E d \in eng.kdisp : d.key = key
    ELSE /\ eng.hook[key] = eng.disp[key].rev
         /\ {d \in eng.kdisp : d.key = key}
                = {[key |-> key, rev |-> eng.disp[key].rev,
                    members |-> eng.disp[key].members]}

\* C1: whenever no request is in progress, for every DispatcherKey the chain
\* served is exactly the surviving members of the key, sorted by priority
\* ascending and then id ascending, and every member's stored
\* current_position is its 0-based index in the chain; as long as the
\* daemon was never killed, that chain is the one the dispatcher at the
\* hook was built for.
C1_ChainSortedAndPositioned ==
    engPc = "idle" =>
        \A key \in DispatcherKeys :
            LET chain == eng.disp[key].members
            IN  /\ ChainSet(key) = Members(eng, key)
                /\ kills = 0 => KernelServes(key)
                /\ \A i, j \in 1..Len(chain) :
                       i < j => Before(eng, chain[i], chain[j])
                /\ \A i \in 1..Len(chain) :
                       LET t == TreeOf(eng, eng.reg[chain[i]])
                       IN  /\ "current_position" \in DOMAIN t
                           /\ t["current_position"] = i - 1

\* C1's case: three adds and a remove have left a chain of two in which the
\* priority, not the id, decides the order.
C1_Witness ==
    /\ engPc = "idle"
    /\ outcome = "ok"
    /\ eng.nextKid > MaxKernelIds
    /\ \E key \in DispatcherKeys :
          /\ Len(eng.disp[key].members) = 2
          /\ eng.disp[key].members[1] > eng.disp[key].members[2]
          /\ Cardinality(DOMAIN eng.reg) = 2

\* C2 as stated: a request into which one failure was injected leaves the
\* combined state (registry trees, dispatcher chains, pins, kernel objects)
\* either as it was before the request or as a fully successful request
\* leaves it.
C2_FailureLeavesPreOrPost ==
    (engPc = "idle" /\ outcome = "error") =>
        \/ Observed(eng) = Observed(preEng)
        \/ Observed(eng) = Observed(Post(preEng, req))

\* C3: when the daemon is killed right after a success reply and restarted,
\* list() after recovery is what list() was at the reply.
C3_AckedIsDurable ==
    (outcome = "recovered" /\ killedAt = "idle" /\ lastAck.valid) =>
        list(eng) = lastAck.progs

\* C3's case: the daemon was killed right after acknowledging a request that
\* left two programs, and has recovered.
C3_Witness ==
    /\ outcome = "recovered"
    /\ killedAt = "idle"
    /\ lastAck.valid
    /\ Cardinality(DOMAIN lastAck.progs) = 2
    /\ list(eng) = lastAck.progs

\* The request in progress replaces the dispatcher of its key by the
\* dispatcher of a non-empty chain.
Replacing ==
    /\ req.op \in {"add", "remove"}
    /\ req.oldRev # 0
    /\ req.chain # <<>>

OldPinned == <<req.key, req.oldRev>> \in eng.dpins
OldLoaded == \E d \in eng.kdisp : d.key = req.key /\ d.rev = req.oldRev

\* C4: while a dispatcher is replaced by the dispatcher of a non-empty chain
\* the hook always has a dispatcher attached, and the old dispatcher's link
\* is unpinned and the old dispatcher unloaded only once the new one is
\* attached; after a kill between "new attached" and "old unloaded" and
\* recovery, the new dispatcher is attached and it is the only dispatcher of
\* the key.
C4_AttachBeforeDetach ==
    /\ (Replacing /\ engPc \in {"dload", "attach_new", "unpin_old",
                                "unload_old", "positions", "commit"}) =>
           /\ eng.hook[req.key] \in {req.oldRev, req.newRev}
           /\ (~OldPinned \/ ~OldLoaded) => eng.hook[req.key] = req.newRev
    /\ (Replacing /\ outcome = "recovered"
                  /\ killedAt \in {"unpin_old", "unload_old"}) =>
           /\ eng.hook[req.key] = req.newRev
           /\ {d \in eng.kdisp : d.key = req.key}
                  = {[key |-> req.key, rev |-> req.newRev,
                      members |-> req.chain]}

\* C4's case: the daemon was killed with the new dispatcher attached and the
\* old one still pinned and loaded, and has recovered.
C4_Witness ==
    /\ Replacing
    /\ outcome = "recovered"
    /\ killedAt = "unpin_old"
    /\ eng.hook[req.key] = req.newRev

(***************************************************************************)
(* Claims about serve()                                                    *)
(***************************************************************************)

\* C5 as stated: recovery completes before any client connection is accepted
\* and before any client command is enqueued or processed.  A command in the
\* channel or taken from it comes from an accepted connection.
C5_AcceptedOnlyAfterRecovery ==
    (queue # <<>> \/ processed # <<>>) => recovered

\* C5 amended: no client command is taken from the channel or processed until
\* rebuild_state() has returned successfully (connections are accepted and
\* commands are enqueued while recovery still runs).
C5_ProcessedOnlyAfterRecovery ==
    /\ (processed # <<>> \/ cmdPc # "recv" \/ curCmd # NoCmd) => recovered
    /\ mainPc = "loop" => recovered

\* A command enqueued before recovery had completed has been processed.
C5_Witness ==
    /\ recovered
    /\ \E i \in DOMAIN processed : processed[i].early

\* C6 as stated: every add/remove, the static-program loader's included, goes
\* through the command queue, and at most one is in progress.
C6_EveryMutationThroughQueue ==
    /\ Cardinality(Mutators) <= 1
    /\ "static" \notin Mutators

\* C6 amended: at most one mutation is in progress at any time; the mutations
\* of gRPC clients and of the storage manager go through the command queue,
\* and the static programs are added by serve() itself, by direct calls that
\* all end before the first command is taken from the queue.
C6_OneMutationAtATime ==
    /\ Cardinality(Mutators) <= 1
    /\ "static" \in Mutators => (processed = <<>> /\ cmdPc = "recv")
    /\ "queue" \in Mutators =>
          /\ curCmd = processed[Len(processed)]
          /\ curCmd.src \in Conns \cup {"csi"}
          /\ curCmd.kind \in MutatingKinds

\* A mutation from the queue is in progress while another sender's mutation
\* waits in the queue.
C6_Witness ==
    /\ "queue" \in Mutators
    /\ \E i \in DOMAIN queue : /\ queue[i].kind \in MutatingKinds
                               /\ queue[i].src # curCmd.src

\* serve() is over: it has returned (or the process was ended), and with it
\* every listener and the command loop.
Stopped ==
    /\ mainPc = "returned"
    /\ \A e \in Endpoints : ~Accepting(e)

\* C7: once SIGINT or SIGTERM has been delivered the daemon eventually stops:
\* the listeners stop accepting, the command loop stops, serve() returns.
C7_SignalStopsDaemon == (sigCount > 0) ~> Stopped

C9_StaticProgramsFatal ==
    /\ (mainPc = "static_add" \/ staticApplied # <<>>) => recovered
    /\ Len(staticApplied) <= Len(static_programs)
    /\ staticApplied = SubSeq(static_programs, 1, Len(staticApplied))
    /\ mainPc = "spawn_storage" => staticApplied = static_programs
    /\ result = "StaticAddErr" =>
          /\ mainPc = "returned"
          /\ processed = <<>>
          /\ curCmd = NoCmd
          /\ sdMain = "new"
          /\ ~csiSpawned

\* The second static program failed after the first was applied, with a
\* client command waiting that will never be processed.
C9_Witness ==
    /\ result = "StaticAddErr"
    /\ Len(staticApplied) = 1
    /\ queue # <<>>

\* C10: the commands of one connection are processed in the order they were
\* enqueued: among processed commands of one sender the arrival numbers
\* increase, and no command still queued arrived before a processed one of
\* the same sender.
C10_PerConnectionOrder ==
    /\ \A i, j \in DOMAIN processed :
          (i < j /\ processed[i].src = processed[j].src)
             => processed[i].seq < processed[j].seq
    /\ \A i \in DOMAIN processed, k \in DOMAIN queue :
          processed[i].src = queue[k].src => processed[i].seq < queue[k].seq

\* Two commands of one connection have been processed.
C10_Witness ==
    \E i, j \in DOMAIN processed :
        /\ i < j
        /\ processed[i].src = processed[j].src
        /\ processed[i].src \in Conns

(***************************************************************************)
(* Claims about models.rs                                                   *)
(***************************************************************************)

\* The bit b of a u32.
Bit(w, b) ==
    IF b < 16 THEN (w[2] \div 2^b) % 2 = 1
    ELSE (w[1] \div 2^(b - 16)) % 2 = 1

\* The action numbers of XDP and TC.
XdpAction ==
    [Aborted |-> 0, Drop |-> 1, Pass |-> 2, Tx |-> 3, Redirect |-> 4,
     DispatcherReturn |-> 31]
TcAction ==
    [Unspec |-> -1, Ok |-> 0, Reclassify |-> 1, Shot |-> 2, Pipe |-> 3,
     Stolen |-> 4, Queued |-> 5, Repeat |-> 6, Redirect |-> 7, Trap |-> 8,
     DispatcherReturn |-> 30]

\* C11: the mask of an XDP proceed_on list has bit i set exactly for the
\* actions i of the list, that of a TC list bit i+1; no shift overflows and
\* the mask is a u32, so the mask of {pass, dispatcher_return} is
\* (1<<2)|(1<<31) and that of {pipe, dispatcher_return} is (1<<4)|(1<<31).
C11_MaskSetsTheBitsOfTheList ==
    /\ call.fn = "XdpProceedOn::mask" =>
          /\ ret.val.u32[1] \in 0..(2^16 - 1)
          /\ ret.val.u32[2] \in 0..(2^16 - 1)
          /\ \A i \in 1..Len(call.arg.entries) : XdpAction[call.arg.entries[i]] \in 0..31
          /\ \A b \in 0..31 :
                Bit(ret.val.u32, b) <=>
                    \E i \in 1..Len(call.arg.entries) : XdpAction[call.arg.entries[i]] = b
          /\ call.arg.entries = <<"Pass", "DispatcherReturn">> =>
                ret.val.u32 = <<2^15, 2^2>>
    /\ call.fn = "TcProceedOn::mask" =>
          /\ ret.val.u32[1] \in 0..(2^16 - 1)
          /\ ret.val.u32[2] \in 0..(2^16 - 1)
          /\ \A i \in 1..Len(call.arg.entries) : TcAction[call.arg.entries[i]] + 1 \in 0..31
          /\ \A b \in 0..31 :
                Bit(ret.val.u32, b) <=>
                    \E i \in 1..Len(call.arg.entries) : TcAction[call.arg.entries[i]] + 1 = b
          /\ call.arg.entries = <<"Pipe", "DispatcherReturn">> =>
                ret.val.u32 = <<2^15, 2^4>>

\* A TC list with a duplicate and with unspec, whose shift is 0.
C11_Witness ==
    /\ call.fn = "TcProceedOn::mask"
    /\ call.arg.entries = <<"DispatcherReturn", "Unspec", "Unspec">>
    /\ ret.val.u32 = <<2^15, 1>>

\* C12: an empty proceed_on gives the defaults by every construction path:
\* from_int32s, from_strings or collecting an iterator yield
\* {pass, dispatcher_return} for XDP and {pipe, dispatcher_return} for TC.
C12_EmptyProceedOnGivesDefaults ==
    /\ ( /\ call.fn \in {"XdpProceedOn::from_iter",
                         "XdpProceedOn::from_strings",
                         "XdpProceedOn::from_int32s"}
         /\ call.arg \in {[entries |-> <<>>], [strings |-> <<>>],
                         [ints |-> <<>>]} )
          => ret.tag = "Ok" /\ ret.val.entries = <<"Pass", "DispatcherReturn">>
    /\ ( /\ call.fn \in {"TcProceedOn::from_iter",
                         "TcProceedOn::from_strings",
                         "TcProceedOn::from_int32s"}
         /\ call.arg \in {[entries |-> <<>>], [strings |-> <<>>],
                         [ints |-> <<>>]} )
          => ret.tag = "Ok" /\ ret.val.entries = <<"Pipe", "DispatcherReturn">>

\* C13: every value of ProgramType, Direction, ImagePullPolicy,
\* XdpProceedOnEntry and TcProceedOnEntry is what parsing its Display string
\* returns and what parsing its integer encoding returns.
C13_EnumsRoundTrip ==
    call.fn \in {"to_string;try_from", "into;try_from"} =>
        ret.tag = "Ok" /\ ret.val.variant = call.arg.value[2]

\* The pull policy, the one enum whose strings are capitalised, written and
\* parsed back.
C13_Witness ==
    /\ call.fn = "to_string;try_from"
    /\ call.arg.value = <<"ImagePullPolicy", "IfNotPresent">>
    /\ ret.tag = "Ok"
    /\ ret.val.variant = "IfNotPresent"

\* The integers and strings of an enum's domain.
IntDomain(ty) ==
    CASE ty = "ProgramType" -> 0..31
      [] ty = "Direction" -> {1, 2}
      [] ty = "ImagePullPolicy" -> {0, 1, 2}
      [] ty = "XdpProceedOnEntry" -> (0..4) \cup {31}
      [] ty = "TcProceedOnEntry" -> ((-1)..8) \cup {30}
StringDomain(ty) == {Display(ty, v) : v \in Variants(ty)}

\* The error of an enum's parsers; the pull policy's is named
\* InvalidBytecodeImagePullPolicy in errors.rs.
ParseErrorOf(ty) ==
    CASE ty = "ProgramType" -> "InvalidProgramType"
      [] ty = "Direction" -> "InvalidDirection"
      [] ty = "ImagePullPolicy" -> "InvalidBytecodeImagePullPolicy"
      [] ty \in {"XdpProceedOnEntry", "TcProceedOnEntry"} ->
            "InvalidProceedOn"

\* C14: an integer or string outside an enum's domain that reaches a parser
\* yields the enum's error and never aborts the daemon; BytecodeImage::new
\* with a pull policy outside {0, 1, 2} reports the pull policy's error.
C14_ParseFailuresAreErrors ==
    /\ call.fn = "try_from(int)"
            /\ call.arg.int[2] \notin IntDomain(call.arg.int[1])
          => /\ ret.tag = "Err"
             /\ ret.val.error.kind = ParseErrorOf(call.arg.int[1])
    /\ call.fn = "try_from(String)"
            /\ call.arg.string[2] \notin StringDomain(call.arg.string[1])
          => /\ ret.tag = "Err"
             /\ ret.val.error.kind = ParseErrorOf(call.arg.string[1])
    /\ call.fn = "BytecodeImage::new" /\ call.arg.policy \notin {0, 1, 2}
          => /\ ret.tag = "Err"
             /\ ret.val.error.kind = ParseErrorOf("ImagePullPolicy")

\* The filter and the program of a call of matches.
Filter == call.arg.filter_program.filter
Prog == call.arg.filter_program.program

\* The type the daemon records for a program it owns.
DaemonKind ==
    [Xdp |-> 6, Tc |-> 3, Tracepoint |-> 5, Kprobe |-> 2, Uprobe |-> 2,
     Fentry |-> 26, Fexit |-> 26]

\* C15: on an unsupported program matches is false whenever
\* bpfman_programs_only is set or the selector is not empty; otherwise it is
\* true exactly when no program type is asked for or the type asked for is
\* the kernel program type, false if that type cannot be read.
C15_UnsupportedMatchesByKernelType ==
    (call.fn = "ListFilter::matches" /\ Prog.variant = "Unsupported") =>
        ret.val.bool =
            IF Filter.bpfman_programs_only
                  \/ DOMAIN Filter.metadata_selector # {}
            THEN FALSE
            ELSE \/ ~Filter.program_type.some
                 \/ /\ Prog.kernel_program_type.ok
                    /\ Prog.kernel_program_type.val = Filter.program_type.val

\* An unsupported program matched by its kernel type, and one not matched
\* because of a selector.
C15_Witness ==
    /\ call.fn = "ListFilter::matches"
    /\ Prog.variant = "Unsupported"
    /\ Filter.program_type = Some(28)
    /\ Prog.kernel_program_type = Got(28)
    /\ ~Filter.bpfman_programs_only
    /\ DOMAIN Filter.metadata_selector = {}
    /\ ret.val.bool

\* C16: on a daemon-owned program matches is true exactly when no program
\* type is asked for or the type asked for is the daemon-side kind, and
\* every pair of the selector is in the program's metadata with an equal
\* value; bpfman_programs_only plays no part.
C16_OwnedMatchesByKindAndSelector ==
    (call.fn = "ListFilter::matches" /\ Prog.variant # "Unsupported") =>
        ret.val.bool =
            ( /\ \/ ~Filter.program_type.some
                 \/ Filter.program_type.val = DaemonKind[Prog.variant]
              /\ \A k \in DOMAIN Filter.metadata_selector :
                    /\ Prog.metadata.ok
                    /\ k \in DOMAIN Prog.metadata.val
                    /\ Prog.metadata.val[k] = Filter.metadata_selector[k] )

\* A TC program matched by kind and by a selector of two pairs, with
\* bpfman_programs_only set.
C16_Witness ==
    /\ call.fn = "ListFilter::matches"
    /\ Prog.variant = "Tc"
    /\ Filter.program_type = Some(3)
    /\ Filter.bpfman_programs_only
    /\ DOMAIN Filter.metadata_selector = MetaKeys
    /\ ret.val.bool

\* C17: a daemon-owned XDP or TC program, of kernel type Ext, is not matched
\* by a filter whose program type is a kernel type other than its kind, and
\* is matched when the filter's program type is Ext.
C17_OwnedExtMatchedOnlyByExt ==
    ( /\ call.fn = "ListFilter::matches"
      /\ Prog.variant \in {"Xdp", "Tc"}
      /\ Filter.program_type.some
      /\ DOMAIN Filter.metadata_selector = {} ) =>
        /\ Filter.program_type.val = 28 => ret.val.bool
        /\ Filter.program_type.val \notin {28, DaemonKind[Prog.variant]}
              => ~ret.val.bool

\* C17 as amended: a daemon-owned XDP or TC program is not matched by a
\* filter whose program type differs from its kind, Ext included, and is
\* matched by a filter that asks for its kind and selects nothing.
C17_OwnedExtMatchedOnlyByKind ==
    ( /\ call.fn = "ListFilter::matches"
      /\ Prog.variant \in {"Xdp", "Tc"}
      /\ Filter.program_type.some ) =>
        /\ Filter.program_type.val # DaemonKind[Prog.variant] => ~ret.val.bool
        /\ ( /\ Filter.program_type.val = DaemonKind[Prog.variant]
             /\ DOMAIN Filter.metadata_selector = {} ) => ret.val.bool

\* An XDP program asked for as Ext and not matched.
C17_Witness ==
    /\ call.fn = "ListFilter::matches"
    /\ Prog.variant = "Xdp"
    /\ Prog.kernel_program_type = Got(28)
    /\ Filter.program_type = Some(28)
    /\ DOMAIN Filter.metadata_selector = {}
    /\ ~ret.val.bool

\* C18: dispatcher_id gives a key with a direction if and only if the
\* program is TC: an XDP program gives (if_index, no direction), a TC
\* program (if_index, its stored direction), any other variant no key.
C18_DirectionIffTc ==
    call.fn = "Program::dispatcher_id" =>
        LET tree == call.arg.tree
            xdp == tree["kind"] = "xdp" /\ "if_index" \in DOMAIN tree
            tc == /\ tree["kind"] = "tc"
                  /\ {"if_index", "direction"} \subseteq DOMAIN tree
        IN  /\ xdp => /\ ret.tag = "Ok"
                      /\ ret.val.dispatcher_id =
                             <<"xdp", tree["if_index"], "none">>
            /\ tc => /\ ret.tag = "Ok"
                     /\ ret.val.dispatcher_id =
                            <<"tc", tree["if_index"], tree["direction"]>>
            /\ tree["kind"] \notin {"xdp", "tc"} =>
                  /\ ret.tag = "Ok"
                  /\ ret.val.dispatcher_id = NoDispatcherId
            /\ ret.tag = "Ok" =>
                  /\ ret.val.dispatcher_id[3] \in DirectionNames
                        <=> tree["kind"] = "tc"
                  /\ ret.val.dispatcher_id[1] # "none"
                        <=> tree["kind"] \in {"xdp", "tc"}

\* A TC program on interface 2, egress, has been asked for its key.
C18_Witness ==
    /\ call.fn = "Program::dispatcher_id"
    /\ call.arg.tree["kind"] = "tc"
    /\ ret.tag = "Ok"
    /\ ret.val.dispatcher_id = <<"tc", 2, "egress">>

\* The ids of a chain, and whether a tree is of a program of the hook.
ChainIds(st, key) ==
    {st.disp[key].members[i] : i \in 1..Len(st.disp[key].members)}

OnHook(tree, key) ==
    /\ {"kind", "if_index"} \subseteq DOMAIN tree
    /\ tree["kind"] = key[1]
    /\ tree["if_index"] = key[2]
    /\ key[1] = "tc" => /\ "direction" \in DOMAIN tree
                        /\ tree["direction"] = key[3]

\* The hook of the last request: of the request for an add, of the removed
\* program for a remove.
HookOfRequest ==
    IF req.op = "add"
    THEN IF req.kind = "xdp" THEN <<"xdp", req.if_index, "none">>
         ELSE <<"tc", req.if_index, req.direction>>
    ELSE LET tree == TreeOf(preEng, preEng.reg[req.id])
         IN  IF tree["kind"] = "xdp" THEN <<"xdp", tree["if_index"], "none">>
             ELSE <<"tc", tree["if_index"], tree["direction"]>>

\* C19: after any adds and removes every program id is in the chain of at
\* most one dispatcher key, every member of a chain is a program of the
\* chain's hook (same if_index for XDP, same if_index and direction for TC),
\* and the last add or remove left the chain and the members' trees, their
\* positions with them, of every other key as they were.
C19_ChainsAreDisjointAndFramed ==
    /\ \A k1, k2 \in DispatcherKeys :
          k1 # k2 => ChainIds(eng, k1) \cap ChainIds(eng, k2) = {}
    /\ \A k \in DispatcherKeys : \A i \in ChainIds(eng, k) :
          /\ i \in DOMAIN eng.reg
          /\ HasTree(eng, eng.reg[i])
          /\ OnHook(TreeOf(eng, eng.reg[i]), k)
    /\ req.op \in {"add", "remove"} =>
          \A k \in DispatcherKeys \ {HookOfRequest} :
              /\ eng.disp[k] = preEng.disp[k]
              /\ \A i \in ChainIds(preEng, k) :
                    /\ i \in DOMAIN eng.reg
                    /\ TreeOf(eng, eng.reg[i]) = TreeOf(preEng, preEng.reg[i])

\* Both directions of TC on interface 1 have a chain, and the one program
\* of XDP on interface 2 has just been removed.
C19_Witness ==
    /\ req.op = "remove"
    /\ eng.disp[<<"tc", 1, "ingress">>].members # <<>>
    /\ eng.disp[<<"tc", 1, "egress">>].members # <<>>
    /\ preEng.disp[<<"xdp", 2, "none">>].members # <<>>
    /\ eng.disp[<<"xdp", 2, "none">>].members = <<>>

\* The arguments and the result of a call of set_program_bytes.
BytesArg == call.arg.program_bytes
Stored == ret.val.stored

\* The tree is of an image location that get_location can read.
OfImage(tree) ==
    /\ "location_filename" \notin DOMAIN tree
    /\ {"location_image_url", "location_image_pull_policy"}
           \subseteq DOMAIN tree
    /\ tree["location_image_pull_policy"]
           \in {"Always", "IfNotPresent", "Never"}

\* C20: for an image location whose image was fetched, a declared name that
\* is not among the image's symbols makes set_program_bytes fail with
\* ProgramNotFoundInBytecode carrying the image url, the declared name and
\* the symbols, and leaves the tree as it was: no program_bytes, the same
\* name.  For a file location that was read no symbol is looked for and
\* the bytes are stored, the name staying the declared one.
C20_MissingSymbolPersistsNothing ==
    call.fn = "ProgramData::set_program_bytes" =>
        LET tree == BytesArg.tree
        IN  /\ ( /\ OfImage(tree)
                 /\ "name" \in DOMAIN tree
                 /\ BytesArg.image.ok
                 /\ ~Contains(BytesArg.image.val.symbols, tree["name"]) ) =>
                    /\ ret.tag = "Err"
                    /\ Stored.error =
                           [kind |-> "ProgramNotFoundInBytecode",
                            bytecode_image |-> tree["location_image_url"],
                            expected_prog_name |-> tree["name"],
                            program_names |-> BytesArg.image.val.symbols]
                    /\ Stored.tree = tree
                    /\ "program_bytes" \notin DOMAIN Stored.tree
            /\ ( /\ "location_filename" \in DOMAIN tree
                 /\ BytesArg.read.ok
                 /\ BytesArg.failAt # 2 ) =>
                    /\ ret.tag = "Ok"
                    /\ Stored.tree =
                           sled_insert(tree, "program_bytes",
                                       BytesArg.read.val)
            /\ Stored.error.kind = "ProgramNotFoundInBytecode" =>
                    ~Contains(Stored.error.program_names,
                              Stored.error.expected_prog_name)

\* An image whose symbols are pass and unknown_fn, asked for classifier.
C20_Witness ==
    /\ call.fn = "ProgramData::set_program_bytes"
    /\ OfImage(BytesArg.tree)
    /\ "name" \in DOMAIN BytesArg.tree
    /\ BytesArg.tree["name"] = "classifier"
    /\ BytesArg.image = Got([bytes |-> "image_bytes",
                             symbols |-> <<"pass", "unknown_fn">>])
    /\ Stored.error.kind = "ProgramNotFoundInBytecode"
    /\ Stored.error.program_names = <<"pass", "unknown_fn">>

\* C21: Program::delete drops the tree of the program only after its pins
\* are gone: whenever the tree of the program of a remove is absent, neither
\* prog_<id> nor prog_<id>_link exists, also when a pin removal failed.
C21_TreeDroppedAfterPins ==
    (req.op = "remove" /\ engPc = "idle" /\ ~HasTree(eng, req.h)) =>
        /\ ProgPin(req.id) \notin eng.pins
        /\ LinkPin(req.id) \notin eng.pins

\* Every program of the registry has its pin and, once attached, its link
\* pin.
LoadedArePinned ==
    \A i \in DOMAIN eng.reg :
        HasTree(eng, eng.reg[i]) =>
            /\ ProgPin(i) \in eng.pins
            /\ ( /\ "attached" \in DOMAIN TreeOf(eng, eng.reg[i])
                 /\ TreeOf(eng, eng.reg[i])["attached"] )
                  => LinkPin(i) \in eng.pins

\* The step that ends a remove of the last member of a chain with success.
LastMemberRemoved ==
    /\ engPc = "delete"
    /\ req.op = "remove"
    /\ req.chain = <<>>
    /\ engPc' = "idle"
    /\ outcome' = "ok"

\* C22: every loaded program has the pin prog_<id> and, when attached, the
\* link pin prog_<id>_link; when the remove of the last member of a chain
\* succeeds the dispatcher of the chain is detached and unloaded and the
\* removed program has no pin, no link pin and no tree.
C22_PinsFollowPrograms ==
    /\ []LoadedArePinned
    /\ [][LastMemberRemoved =>
            /\ eng'.hook[req.key] = 0
            /\ \A d \in eng'.kdisp : d.key # req.key
            /\ \A p \in eng'.dpins : p[1] # req.key
            /\ eng'.disp[req.key] = NoDisp
            /\ ProgPin(req.id) \notin eng'.pins
            /\ LinkPin(req.id) \notin eng'.pins
            /\ req.id \notin DOMAIN eng'.root
            /\ req.id \notin eng'.kprogs]_vars

\* The last program there was has been removed with success, the kernel
\* having loaded more than one program before.
C22_Witness ==
    /\ outcome = "ok"
    /\ engPc = "idle"
    /\ lastAck.valid
    /\ DOMAIN lastAck.progs = {}
    /\ eng.nextKid > 2
    /\ eng.pins = {}
    /\ eng.kdisp = {}

\* C23: an id assigned by create is never one that was assigned before, to
\* a live program or to one since deleted or renamed: the id ProgramData::new
\* gives a program differs from the id it gave the program created just
\* before.
C23_IdsNeverReused ==
    [][(req.op = "add" /\ req'.op = "add") => req'.rand # req.rand]_vars

\* C24: creating a program whose declared map owner is not a program of the
\* store, or is a program that has a map owner itself, is rejected, so that
\* a map_owner_id always names an existing program without an owner.
C24_OwnerExistsAndIsShallow ==
    ( /\ call.fn = "ProgramData::new"
      /\ call.arg.new.map_owner_id.some ) =>
        LET db == call.arg.new.db
            owner == call.arg.new.map_owner_id.val
        IN  (owner \notin DOMAIN db \/ "map_owner_id" \in DOMAIN db[owner])
                => ret.tag = "Err"

\* The sizes and the instruction count of a program's kernel information.
Sizes(info) ==
    <<info.kernel_bytes_xlated, info.kernel_bytes_jited,
      info.kernel_verified_insns>>

\* C25: bytes_xlated, bytes_jited and verified_insns are set once and never
\* change: a set_kernel_info on a program that has them, as recovery makes
\* it to reconcile the kernel information, leaves them as they were.
C25_KernelSizesNeverChange ==
    ( /\ call.fn = "ProgramData::set_kernel_info"
      /\ call.arg.kernel_info.self # NoKernelInfo ) =>
        Sizes(ret.val.kernel_info) = Sizes(call.arg.kernel_info.self)

\* C25 as amended: after set_kernel_info(prog) returns the three fields are
\* what prog reports, whatever they were before: a second call with the
\* same report leaves them unchanged, one with another report replaces
\* them.
C25_KernelSizesFollowTheKernel ==
    ( /\ call.fn = "ProgramData::set_kernel_info"
      /\ ret.tag = "Ok" ) =>
        LET prog == call.arg.kernel_info.prog
            reported == <<Some(prog.size_translated), Some(prog.size_jitted),
                          Some(prog.verified_instruction_count)>>
        IN  /\ Sizes(ret.val.kernel_info) = reported
            /\ Sizes(call.arg.kernel_info.self) = reported =>
                  Sizes(ret.val.kernel_info) =
                      Sizes(call.arg.kernel_info.self)

\* A program whose jitted size was 40 is given the kernel's new report of
\* 48 and holds 48.
C25_Witness ==
    /\ call.fn = "ProgramData::set_kernel_info"
    /\ ret.tag = "Ok"
    /\ call.arg.kernel_info.self.kernel_bytes_jited = Some(40)
    /\ call.arg.kernel_info.prog.size_jitted = 48
    /\ ret.val.kernel_info.kernel_bytes_jited = Some(48)

\* C26: the conversion from a number is defined for every value from 0 to
\* 33 and gives the variant declared at that position (19 gives
\* CgroupStorage, 21 gives PerCpuCgroupStorage).
C26_MapTypeFromEveryKernelValue ==
    ( /\ call.fn = "MapType::from"
      /\ call.arg.u32 <= 33 ) =>
        /\ ret.tag = "Ok"
        /\ ret.val = Typed("MapType", MapType[call.arg.u32 + 1])

\* C27: after set_maps_used_by(ids) returns, get_maps_used_by gives exactly
\* ids, in order, for a list of any length and whatever was stored before,
\* and a second set_maps_used_by(ids) leaves the tree as it is.
C27_MapsUsedByReplacedInOrder ==
    ( /\ call.fn = "ProgramData::set_maps_used_by"
      /\ ret.tag = "Ok" ) =>
        /\ ret.val.maps_used_by.get = call.arg.maps_used_by.ids
        /\ ret.val.maps_used_by.again = ret.val.maps_used_by.tree

\* C28: after set_proceed_on of a non-empty list returns, get_proceed_on
\* gives that list, in order, for an XDP and for a TC program, whatever
\* was set before.
C28_ProceedOnRoundTrips ==
    ( /\ call.fn \in {"XdpProgram::set_proceed_on",
                      "TcProgram::set_proceed_on"}
      /\ ret.tag = "Ok"
      /\ call.arg.proceed_on.proceed_on # <<>> ) =>
        /\ ret.val.proceed_on.get.tag = "Ok"
        /\ ret.val.proceed_on.get.entries = call.arg.proceed_on.proceed_on

\* The kinds new_from_db rebuilds a program from.
ManagedKinds == {"xdp", "tc", "tracepoint", "probe", "tracing"}

\* C29: new_from_db on the tree a constructor returned, asked for the id
\* stored, gives the variant of that constructor, for all seven variants;
\* asked for another id than the one stored, or given a tree with no kind
\* or with a kind the daemon does not manage, it returns an error; in
\* every case the tree is as it was.
C29_NewFromDbKeepsVariant ==
    call.fn = "Program::new_from_db" =>
        LET stored == call.arg.stored
            tree == stored.tree
        IN  /\ (stored.built # "none" /\ stored.id = tree["id"]) =>
                  /\ ret.tag = "Ok"
                  /\ ret.val.program.variant = stored.built
            /\ ( \/ "id" \in DOMAIN tree /\ tree["id"] # stored.id
                 \/ "kind" \notin DOMAIN tree
                 \/ "kind" \in DOMAIN tree /\ tree["kind"] \notin ManagedKinds )
                  => ret.tag = "Err"
            /\ ret.val.program.tree = tree

\* A uprobe made without a function name comes back as a uprobe; so does,
\* in other states, an fexit as an fexit.
C29_Witness ==
    /\ call.fn = "Program::new_from_db"
    /\ call.arg.stored.built = "Uprobe"
    /\ "uprobe_fn_name" \notin DOMAIN call.arg.stored.tree
    /\ call.arg.stored.id = 7
    /\ ret.tag = "Ok"
    /\ ret.val.program.variant = "Uprobe"

\* C30: after swap_tree(new_id) returns Ok, the tree of new_id holds
\* exactly the pairs of the tree swapped, with id = new_id; the tree
\* swapped is gone; every other tree of the store is as it was; also when
\* the store already held a tree for new_id.
C30_SwapTreeMovesExactly ==
    ( /\ call.fn = "ProgramData::swap_tree"
      /\ ret.tag = "Ok" ) =>
        LET before == call.arg.swap.root
            after == ret.val.swap.root
            name == call.arg.swap.name
            new_id == call.arg.swap.new_id
        IN  /\ new_id \in DOMAIN after
            /\ after[new_id] = sled_insert(before[name], "id", new_id)
            /\ name \notin DOMAIN after
            /\ \A n \in ((DOMAIN before) \cup (DOMAIN after)) \ {name, new_id} :
                  /\ n \in DOMAIN before
                  /\ n \in DOMAIN after
                  /\ after[n] = before[n]

====
